---- MODULE Spec2Model ----
(***************************************************************************)
(* Model of the particle correction engine (BlankCorrector,               *)
(* BlindCorrector) and of the CorrectionWorkflow orchestrator of          *)
(* microplas_blind_corr.                                                   *)
(*                                                                         *)
(* A DataFrame is a sequence of records in row order; the DataFrame index  *)
(* is the field id.  Sizes are integers.                                   *)
(***************************************************************************)
EXTENDS Integers, Sequences, FiniteSets, TLC

(***************************************************************************)
(* Bounds of the model.                                                    *)
(***************************************************************************)
MaxTarget == 3

MaxControl == 2

MaxBlind == 4

MaxControlFiles == 2

\* most declarations of a configuration that is run on varying files
MaxRunTargets == 2

(***************************************************************************)
(* Input domains.                                                          *)
(***************************************************************************)
\* sample names in ascending (groupby) order
SampleOrder == <<"S1", "S2">>

SampleNames == {SampleOrder[i] : i \in DOMAIN SampleOrder}

\* phenotype triples in ascending (groupby) order of the key
PhenotypeOrder ==
    << [polymer_type |-> "PE", color |-> "blue", shape |-> "fiber"],
       [polymer_type |-> "PE", color |-> "blue", shape |-> "irregular"] >>

Phenotypes == {PhenotypeOrder[i] : i \in DOMAIN PhenotypeOrder}

\* sample names and control sizes of the control files that are combined
BlindSampleNames == {"B1", "B2", "B3"}

BlindSizes == {55, 65}

\* geometric-mean sizes of target particles and of control particles
Sizes == {100, 180}

ControlSizes == {110, 180}

\* the file names a declaration can name, as target or as control
FileNames == {"A", "B", "C"}

\* the values of ProcessingConfig.size_matching_dimension: the dataclass has no
\* such field ("unset") until load_correction_config assigns it from the settings
SizeDims == {"unset", "geometric_mean"}

Abs(x) == IF x < 0 THEN -x ELSE x

SeqsUpTo(S, n) == UNION {[1..k -> S] : k \in 0..n}

\* sample names in ascending order: a loaded file's sample name is its file name
NameOrder == <<"A", "B", "C">> \o SampleOrder

\* ProcessingConfig: the defaults the preprocessing reads
excluded_polymers == {"Parafilm", "PV23"}

size_filter_highpass == 50

size_filter_lowpass == 5000

color_standardization(c) == IF c = "violet" THEN "blue" ELSE c

shape_standardization(h) == IF h = "flake" THEN "irregular" ELSE h

\* a row of a data file, under the standardized column names
RawRow(id, polymer, color, shape, s1, s2) ==
    [particle_id |-> id, polymer_type |-> polymer, color |-> color, shape |-> shape,
     size_1 |-> s1, size_2 |-> s2]

\* the contents a data file may have
FilePools ==
    { << RawRow(1, "PE", "blue", "fiber", 100, 100),
         RawRow(2, "PE", "violet", "fiber", 50, 200),
         RawRow(3, "Parafilm", "blue", "fiber", 100, 100) >>,
      << RawRow(1, "PE", "blue", "fiber", 110, 110),
         RawRow(2, "PE", "blue", "flake", 40, 90) >> }

\* a file of the data directory: absent, or present with its rows
DiskFiles ==
    {[exists |-> FALSE, rows |-> <<>>]} \cup {[exists |-> TRUE, rows |-> r] : r \in FilePools}

\* every referenced file present, holding the first or the second contents
ScenarioDisk ==
    [f \in FileNames |->
        [exists |-> TRUE,
         rows |-> IF f = "C"
                  THEN << RawRow(1, "PE", "blue", "fiber", 110, 110),
                          RawRow(2, "PE", "blue", "flake", 40, 90) >>
                  ELSE << RawRow(1, "PE", "blue", "fiber", 100, 100),
                          RawRow(2, "PE", "violet", "fiber", 50, 200),
                          RawRow(3, "Parafilm", "blue", "fiber", 100, 100) >>]]

\* a processed pool: row i has index label i (pairwise distinct ids)
TargetRows ==
    { [sample_name |-> s, polymer_type |-> p.polymer_type, color |-> p.color,
       shape |-> p.shape, size_geom_mean |-> z] :
        s \in SampleNames, p \in Phenotypes, z \in Sizes }

WithIds(rows) ==
    [i \in DOMAIN rows |->
        [id |-> i, sample_name |-> rows[i].sample_name,
         polymer_type |-> rows[i].polymer_type, color |-> rows[i].color,
         shape |-> rows[i].shape, size_geom_mean |-> rows[i].size_geom_mean]]

\* a control pool of the single-control pass: a processed file
BlankRows ==
    { [sample_name |-> "B1", polymer_type |-> p.polymer_type, color |-> p.color,
       shape |-> p.shape, size_geom_mean |-> z] :
        p \in Phenotypes, z \in ControlSizes }

\* a control pool of the grouped pass: size_geom_mean relabelled
WithBlindIds(rows) ==
    [i \in DOMAIN rows |->
        [id |-> i, sample_name |-> rows[i].sample_name,
         polymer_type |-> rows[i].polymer_type, color |-> rows[i].color,
         shape |-> rows[i].shape, blind_size_geom_mean |-> rows[i].size_geom_mean]]

\* the combined control pool handed to create_synthetic_blind
BlindRows ==
    { [sample_name |-> s, polymer_type |-> p.polymer_type, color |-> p.color,
       shape |-> p.shape, size_geom_mean |-> z] :
        s \in BlindSampleNames, p \in Phenotypes, z \in BlindSizes }

\* three control files with sizes {50,60}, {55,65}, {52,58} of one phenotype
ScenarioBlinds ==
    LET Row(s, z) == [sample_name |-> s, polymer_type |-> "PE", color |-> "blue",
                      shape |-> "irregular", size_geom_mean |-> z]
    IN << Row("B1", 50), Row("B1", 60), Row("B2", 55), Row("B2", 65),
          Row("B3", 52), Row("B3", 58) >>

VARIABLES
    environmental_particles,  \* the target pool passed to the pass
    control_particles,        \* blank_particles / synthetic_blind
    mode,                     \* "blank": apply_blank_correction, "blind": apply_blind_correction
    size_matching_dimension,  \* config.size_matching_dimension
    env_particles_copy,       \* the working copy of the target pool
    sample_group,             \* the current sample group of the grouped pass
    elimination_log,          \* the elimination log
    gi,                       \* number of sample groups entered
    ci,                       \* position of the control record processed next
    ppc,                      \* position in the pass
    blind_particles,          \* the pool passed to create_synthetic_blind
    num_blind_samples,        \* number of distinct control sample names
    sorted_group,             \* the phenotype group sorted last
    synthetic_blind,          \* the selections concatenated so far
    pgi,                      \* number of phenotype groups processed
    spc,                      \* position in create_synthetic_blind
    correction_config,        \* correction_config['corrections']
    entry,                    \* the method of CorrectionWorkflow that was called
    wpc,                      \* position in that method
    raised,                   \* the error raised, if any
    circular_errors,          \* the result of detect_circular_dependencies
    graph,                    \* control file -> the targets listing it
    in_degree,                \* file -> number of unresolved controls
    queue,                    \* the queue of the topological sort
    processing_order,         \* the (target, controls) pairs resolved so far
    si,                       \* position of the next step in processing_order
    loaded_files,             \* the cache of loaded files, by name
    processed_files,          \* the cache of processed files, by name
    saved_files,              \* the corrected files written, by target name
    disk,                     \* the files of the data directory
    results,                  \* results['processed_files'] of run_workflow
    op_counts,                \* per file: disk loads, preprocessings, cache writes
    load_args,                \* load_correction_config(config_file, data_directory)
    document,                 \* self.correction_config as yaml.safe_load returned it
    data_directory,           \* self.data_directory
    output_directory,         \* self.output_directory
    lpc,                      \* position in load_correction_config
    load_error,               \* the error load_correction_config raised, if any
    call_matching,            \* the match set passed to _find_closest_particle
    closest_particle_id,      \* what _find_closest_particle returned
    previous_results          \* the results the previous run_workflow returned

passVars == <<environmental_particles, control_particles, mode,
              size_matching_dimension, env_particles_copy, sample_group,
              elimination_log, gi, ci, ppc>>

synVars == <<blind_particles, num_blind_samples, sorted_group, synthetic_blind,
             pgi, spc>>

flowVars == <<correction_config, entry, wpc, raised, circular_errors, graph,
              in_degree, queue, processing_order, si, loaded_files,
              processed_files, saved_files, disk, results, op_counts>>

\* the caches, the outputs and the results of a run
runVars == <<loaded_files, processed_files, saved_files, results, op_counts>>

\* the state load_correction_config reads and writes
loadVars == <<load_args, document, data_directory, output_directory, lpc, load_error>>

\* a direct call of _find_closest_particle
callVars == <<call_matching, closest_particle_id>>

\* what is kept of an earlier run of the same workflow object
historyVars == <<previous_results>>

vars == <<passVars, synVars, flowVars, loadVars, callVars, historyVars>>

\* what a correction pass, create_synthetic_blind and the workflow leave alone
notPassVars == <<synVars, flowVars, loadVars, callVars, historyVars>>

notSynVars == <<passVars, flowVars, loadVars, callVars, historyVars>>

notFlowVars == <<passVars, synVars, loadVars, callVars, historyVars>>

(***************************************************************************)
(* DataFrame helpers.                                                      *)
(***************************************************************************)
Index(df) == {df[i].id : i \in DOMAIN df}

Loc(df, label) == df[CHOOSE i \in DOMAIN df : df[i].id = label]

DropNothing(df, label) == df

\* DataFrame.drop(label): every row with that index label is removed
Drop(df, label) ==
    LET Keep(r) == r.id # label IN SelectSeq(df, Keep)

SamePhenotype(row, ref) ==
    /\ row.polymer_type = ref.polymer_type
    /\ row.color = ref.color
    /\ row.shape = ref.shape

\* the matching mask on the three phenotype columns
matching_mask(row, ref) == SamePhenotype(row, ref)

\* the index label of the last row holding the minimum
idxlast(rows) ==
    LET i == CHOOSE i \in DOMAIN rows :
                 /\ \A j \in DOMAIN rows : rows[i].size_diff <= rows[j].size_diff
                 /\ \A j \in (i + 1)..Len(rows) : rows[j].size_diff # rows[i].size_diff
    IN rows[i].id

\* Series.idxmin: the index label of the first row holding the minimum
idxmin(rows) ==
    LET i == CHOOSE i \in DOMAIN rows :
                 /\ \A j \in DOMAIN rows : rows[i].size_diff <= rows[j].size_diff
                 /\ \A j \in 1..(i - 1) : rows[j].size_diff # rows[i].size_diff
    IN rows[i].id

\* DataFrame.groupby(sample_col): the group keys in ascending order
GroupKeys(df) ==
    LET Present(s) == \E i \in DOMAIN df : df[i].sample_name = s
    IN SelectSeq(NameOrder, Present)

GroupOf(df, s) ==
    LET In(r) == r.sample_name = s IN SelectSeq(df, In)

(***************************************************************************)
(* BlankCorrector                                                          *)
(***************************************************************************)
\* the column the size difference is taken on: size_geom_mean for the literal
\* "geometric_mean", the named column when both sides have it, else the fallback
Blank_size_column(size_dim, row, blank_particle) ==
    IF size_dim = "geometric_mean"
    THEN "size_geom_mean"
    ELSE IF size_dim \in DOMAIN row /\ size_dim \in DOMAIN blank_particle
    THEN size_dim
    ELSE "size_geom_mean"

\* rows of the pool matching the blank particle, annotated with size_diff;
\* reading config.size_matching_dimension raises AttributeError when the
\* attribute was never assigned
Blank_find_matching_particles(pool, blank_particle, size_dim) ==
    LET Mask(r) == matching_mask(r, blank_particle)
        matching == SelectSeq(pool, Mask)
    IN IF Len(matching) > 0
       THEN IF size_dim = "unset"
            THEN [raised |-> TRUE, rows |-> <<>>]
            ELSE LET c == Blank_size_column(size_dim, matching[1], blank_particle)
                 IN [raised |-> FALSE,
                     rows |-> [i \in DOMAIN matching |->
                         [id |-> matching[i].id,
                          size_diff |-> Abs(matching[i][c] - blank_particle[c])]]]
       ELSE [raised |-> FALSE, rows |-> <<>>]

\* an idxmin that answers an empty match set with no label and no error
idxmin_or_none(rows) ==
    IF Len(rows) = 0 THEN [raised |-> "", id |-> 0] ELSE [raised |-> "", id |-> idxmin(rows)]

\* lines 186-192 of either corrector: ValueError on an empty match set, else
\* the label idxmin returns
find_closest_particle(rows) ==
    IF Len(rows) = 0
    THEN [raised |-> "ValueError", id |-> 0]
    ELSE [raised |-> "", id |-> idxmin(rows)]

Blank_find_closest_particle(rows) == find_closest_particle(rows).id

BlankRecord(blank_particle, eliminated, size_difference) ==
    [blank_particle_id |-> blank_particle.id,
     eliminated_particle_id |-> eliminated.id,
     sample_name |-> eliminated.sample_name,
     polymer_type |-> eliminated.polymer_type,
     color |-> eliminated.color,
     shape |-> eliminated.shape,
     size_difference |-> size_difference]

RetryControl(i, matched) == IF matched THEN i ELSE i + 1

\* the for loop over the control records: each record is visited once
NextControl(i, matched) == i + 1

\* one iteration of the loop of apply_blank_correction
BlankIter ==
    /\ mode = "blank" /\ ppc = "loop"
    /\ ci <= Len(control_particles)
    /\ LET blank_particle == control_particles[ci]
           m == Blank_find_matching_particles(env_particles_copy, blank_particle,
                                              size_matching_dimension)
       IN IF m.raised
          THEN /\ ppc' = "raised"
               /\ UNCHANGED <<env_particles_copy, elimination_log, ci>>
          ELSE IF Len(m.rows) > 0
          THEN LET eliminated_particle_id == Blank_find_closest_particle(m.rows)
                   eliminated == Loc(env_particles_copy, eliminated_particle_id)
                   c == Blank_size_column(size_matching_dimension, eliminated,
                                          blank_particle)
                   size_difference == Abs(eliminated[c] - blank_particle[c])
               IN /\ elimination_log' = Append(elimination_log,
                          BlankRecord(blank_particle, eliminated, size_difference))
                  /\ env_particles_copy' = Drop(env_particles_copy, eliminated_particle_id)
                  /\ ci' = NextControl(ci, TRUE)
                  /\ ppc' = ppc
          ELSE /\ ci' = NextControl(ci, FALSE)
               /\ UNCHANGED <<env_particles_copy, elimination_log, ppc>>
    /\ UNCHANGED <<environmental_particles, control_particles, mode,
                   size_matching_dimension, sample_group, gi>>
    /\ UNCHANGED notPassVars

\* the loop is exhausted: return env_particles_copy, elimination_log
BlankReturn ==
    /\ mode = "blank" /\ ppc = "loop"
    /\ ci > Len(control_particles)
    /\ ppc' = "done"
    /\ UNCHANGED <<environmental_particles, control_particles, mode,
                   size_matching_dimension, env_particles_copy, sample_group,
                   elimination_log, gi, ci>>
    /\ UNCHANGED notPassVars

(***************************************************************************)
(* BlindCorrector                                                          *)
(***************************************************************************)
Blind_find_matching_particles(sample_particles, blind_particle) ==
    LET Mask(r) == matching_mask(r, blind_particle)
        matching == SelectSeq(sample_particles, Mask)
    IN [i \in DOMAIN matching |->
           [id |-> matching[i].id,
            size_diff |-> Abs(matching[i].size_geom_mean
                              - blind_particle.blind_size_geom_mean)]]

\* the last of the closest candidates instead of the first
Blind_find_last_particle(rows) == idxlast(rows)

Blind_find_closest_particle(rows) == find_closest_particle(rows).id

BlindRecord(blind_particle, eliminated, sample_name, size_difference) ==
    [blind_particle_id |-> blind_particle.id,
     blind_sample_name |-> blind_particle.sample_name,
     eliminated_particle_id |-> eliminated.id,
     sample_name |-> sample_name,
     polymer_type |-> blind_particle.polymer_type,
     color |-> blind_particle.color,
     shape |-> blind_particle.shape,
     size_difference |-> size_difference]

KeepInGroup(group, label) == group

\* sample_group.drop(eliminated_particle_id), blind_corrector.py line 157
DropFromGroup(group, label) == Drop(group, label)

\* the outer loop of apply_blind_correction enters the next sample group
BlindNextGroup ==
    /\ mode = "blind" /\ ppc = "loop"
    /\ gi = 0 \/ ci > Len(control_particles)
    /\ gi < Len(GroupKeys(environmental_particles))
    /\ gi' = gi + 1
    /\ sample_group' = GroupOf(environmental_particles,
                               GroupKeys(environmental_particles)[gi + 1])
    /\ ci' = 1
    /\ UNCHANGED <<environmental_particles, control_particles, mode,
                   size_matching_dimension, env_particles_copy,
                   elimination_log, ppc>>
    /\ UNCHANGED notPassVars

\* one iteration of the inner loop of apply_blind_correction
BlindIter ==
    /\ mode = "blind" /\ ppc = "loop"
    /\ gi > 0
    /\ ci <= Len(control_particles)
    /\ LET blind_particle == control_particles[ci]
           sample_name == GroupKeys(environmental_particles)[gi]
           matching_particles == Blind_find_matching_particles(sample_group, blind_particle)
       IN IF Len(matching_particles) > 0
          THEN LET eliminated_particle_id == Blind_find_closest_particle(matching_particles)
               IN IF eliminated_particle_id \in Index(env_particles_copy)
                  THEN LET eliminated == Loc(env_particles_copy, eliminated_particle_id)
                           size_difference == Abs(eliminated.size_geom_mean
                                                  - blind_particle.blind_size_geom_mean)
                       IN /\ elimination_log' = Append(elimination_log,
                                  BlindRecord(blind_particle, eliminated, sample_name,
                                              size_difference))
                          /\ env_particles_copy' = Drop(env_particles_copy,
                                                        eliminated_particle_id)
                          /\ sample_group' = DropFromGroup(sample_group,
                                                           eliminated_particle_id)
                          /\ ci' = NextControl(ci, TRUE)
                  ELSE /\ ci' = NextControl(ci, FALSE)
                       /\ UNCHANGED <<env_particles_copy, sample_group, elimination_log>>
          ELSE /\ ci' = NextControl(ci, FALSE)
               /\ UNCHANGED <<env_particles_copy, sample_group, elimination_log>>
    /\ UNCHANGED <<environmental_particles, control_particles, mode,
                   size_matching_dimension, gi, ppc>>
    /\ UNCHANGED notPassVars

\* both loops are exhausted: return env_particles_copy, elimination_log
BlindReturn ==
    /\ mode = "blind" /\ ppc = "loop"
    /\ gi = 0 \/ ci > Len(control_particles)
    /\ gi = Len(GroupKeys(environmental_particles))
    /\ ppc' = "done"
    /\ UNCHANGED <<environmental_particles, control_particles, mode,
                   size_matching_dimension, env_particles_copy, sample_group,
                   elimination_log, gi, ci>>
    /\ UNCHANGED notPassVars

(***************************************************************************)
(* BlindCorrector.create_synthetic_blind                                   *)
(***************************************************************************)
\* Series.nunique
nunique(df) == Cardinality({df[i].sample_name : i \in DOMAIN df})

\* the phenotype triple of a record
PhenotypeOf(r) == [polymer_type |-> r.polymer_type, color |-> r.color, shape |-> r.shape]

RECURSIVE FirstEncountered(_, _)
\* the phenotypes of the records from position k on that no earlier record has,
\* in row order
FirstEncountered(df, k) ==
    IF k > Len(df)
    THEN <<>>
    ELSE IF \E j \in 1..(k - 1) : SamePhenotype(df[j], df[k])
    THEN FirstEncountered(df, k + 1)
    ELSE <<PhenotypeOf(df[k])>> \o FirstEncountered(df, k + 1)

\* a groupby that yields the groups in order of first appearance (sort=False)
KeysAsEncountered(df) == FirstEncountered(df, 1)

\* DataFrame.groupby on the phenotype columns: the keys in ascending order
PhenotypeKeys(df) ==
    LET Present(p) == \E i \in DOMAIN df : SamePhenotype(df[i], p)
    IN SelectSeq(PhenotypeOrder, Present)

PhenotypeGroup(df, p) ==
    LET In(r) == SamePhenotype(r, p) IN SelectSeq(df, In)

RECURSIVE DescendingOrders(_)
\* the orders sort_values(ascending=False) can leave a set of rows in: the
\* default sort is not stable, so rows of equal size come in any order
DescendingOrders(rows) ==
    IF rows = {} THEN {<<>>}
    ELSE UNION { {<<r>> \o rest : rest \in DescendingOrders(rows \ {r})} :
                 r \in {x \in rows :
                          \A y \in rows : y.blind_size_geom_mean <= x.blind_size_geom_mean} }

\* the frame left in its incoming row order
unsorted(group) == {group}

\* sort_values(ascending=False): every descending order, ties in any order
sort_values(group) == DescendingOrders({group[i] : i \in DOMAIN group})

\* the positions 1, 1 + n, 1 + 2n, ... of a frame of the given length
SlicePositions(len, n) == {k \in 1..len : (k - 1) % n = 0}

\* sorted_group.iloc[::n]
iloc_step(df, n) ==
    LET Sel(k) == k \in SlicePositions(Len(df), n)
        idx == SelectSeq([k \in 1..Len(df) |-> k], Sel)
    IN [j \in DOMAIN idx |-> df[idx[j]]]

\* lines 44-58: the empty pool returns an empty frame, else count the samples
SynStart ==
    /\ spc = "start"
    /\ IF Len(blind_particles) = 0
       THEN /\ spc' = "done"
            /\ UNCHANGED num_blind_samples
       ELSE /\ num_blind_samples' = nunique(blind_particles)
            /\ spc' = IF nunique(blind_particles) = 0 THEN "done" ELSE "groups"
    /\ UNCHANGED <<blind_particles, sorted_group, synthetic_blind, pgi>>
    /\ UNCHANGED notSynVars

\* lines 65-72: one phenotype group is sorted and every nth row is selected
SynGroup ==
    /\ spc = "groups"
    /\ pgi < Len(PhenotypeKeys(blind_particles))
    /\ LET group == PhenotypeGroup(blind_particles,
                                   PhenotypeKeys(blind_particles)[pgi + 1])
       IN \E sorted \in sort_values(group) :
            /\ sorted_group' = sorted
            /\ synthetic_blind' = synthetic_blind \o iloc_step(sorted, num_blind_samples)
    /\ pgi' = pgi + 1
    /\ UNCHANGED <<blind_particles, num_blind_samples, spc>>
    /\ UNCHANGED notSynVars

\* lines 74-80: the selections are concatenated and returned
SynReturn ==
    /\ spc = "groups"
    /\ pgi = Len(PhenotypeKeys(blind_particles))
    /\ spc' = "done"
    /\ UNCHANGED <<blind_particles, num_blind_samples, sorted_group, synthetic_blind, pgi>>
    /\ UNCHANGED notSynVars

(***************************************************************************)
(* CorrectionWorkflow: the declarations                                    *)
(***************************************************************************)
\* isinstance(control_files, str): a bare name stands for a one-element list
AsList(control_files) ==
    IF control_files.is_str THEN <<control_files.name>> ELSE control_files.names

TargetSet(corrections) == {corrections[i].target : i \in DOMAIN corrections}

\* corrections[target], as a list
ControlsOf(corrections, t) ==
    AsList((CHOOSE d \in {corrections[i] : i \in DOMAIN corrections} : d.target = t).controls)

\* lines 124-128: dependencies[target_file] = control_files
dependencies(corrections) ==
    [t \in TargetSet(corrections) |-> ControlsOf(corrections, t)]

(***************************************************************************)
(* CorrectionWorkflow.detect_circular_dependencies                         *)
(***************************************************************************)
keep_visiting(visiting, node) == visiting

\* line 145: visiting.remove(node)
leave_visiting(visiting, node) == visiting \ {node}

RECURSIVE has_cycle(_, _, _, _), has_cycle_deps(_, _, _, _, _)
\* lines 131-147; the two sets are shared and mutated, so they are returned
has_cycle(deps, node, visiting, visited) ==
    IF node \in visiting
    THEN [found |-> TRUE, visiting |-> visiting, visited |-> visited]
    ELSE IF node \in visited
    THEN [found |-> FALSE, visiting |-> visiting, visited |-> visited]
    ELSE LET r == IF node \in DOMAIN deps
                  THEN has_cycle_deps(deps, deps[node], 1, visiting \cup {node}, visited)
                  ELSE [found |-> FALSE, visiting |-> visiting \cup {node},
                        visited |-> visited]
         IN IF r.found
            THEN r
            ELSE [found |-> FALSE,
                  visiting |-> leave_visiting(r.visiting, node),
                  visited |-> r.visited \cup {node}]

\* lines 141-143: the loop over the dependencies of a node, from position k
has_cycle_deps(deps, list, k, visiting, visited) ==
    IF k > Len(list)
    THEN [found |-> FALSE, visiting |-> visiting, visited |-> visited]
    ELSE LET r == has_cycle(deps, list[k], visiting, visited)
         IN IF r.found THEN r
            ELSE has_cycle_deps(deps, list, k + 1, r.visiting, r.visited)

RECURSIVE dfs_errors(_, _, _, _)
\* lines 149-154: every target not yet visited is searched with a fresh
\* visiting set
dfs_errors(corrections, k, visited, errors) ==
    IF k > Len(corrections) THEN errors
    ELSE LET target_file == corrections[k].target
         IN IF target_file \in visited
            THEN dfs_errors(corrections, k + 1, visited, errors)
            ELSE LET r == has_cycle(dependencies(corrections), target_file, {}, visited)
                 IN dfs_errors(corrections, k + 1, r.visited,
                        IF r.found
                        THEN Append(errors, [kind |-> "circular", file |-> target_file])
                        ELSE errors)

\* lines 157-161: a file listed as its own control
self_errors(corrections) ==
    LET Self(d) == \E j \in DOMAIN AsList(d.controls) : AsList(d.controls)[j] = d.target
        selfs == SelectSeq(corrections, Self)
    IN [i \in DOMAIN selfs |-> [kind |-> "self", file |-> selfs[i].target]]

self_errors_only(corrections) == self_errors(corrections)

detect_circular_dependencies(corrections) ==
    dfs_errors(corrections, 1, {}, <<>>) \o self_errors(corrections)

(***************************************************************************)
(* CorrectionWorkflow.resolve_processing_order                             *)
(***************************************************************************)
\* the (target, control) pairs in the order lines 179-186 visit them
RECURSIVE EdgeList(_, _)
EdgeList(corrections, k) ==
    IF k > Len(corrections) THEN <<>>
    ELSE LET cs == AsList(corrections[k].controls)
         IN [j \in DOMAIN cs |-> [target |-> corrections[k].target, control |-> cs[j]]]
            \o EdgeList(corrections, k + 1)

\* lines 183-184
all_files(corrections) ==
    TargetSet(corrections)
      \cup UNION { {AsList(corrections[i].controls)[j] :
                       j \in DOMAIN AsList(corrections[i].controls)} :
                   i \in DOMAIN corrections }

\* lines 186-189: graph[control_file].append(target_file) for every listed
\* control that is itself a target
build_graph(corrections) ==
    [f \in FileNames |->
        LET Mine(e) == e.control = f /\ f \in TargetSet(corrections)
            es == SelectSeq(EdgeList(corrections, 1), Mine)
        IN [j \in DOMAIN es |-> es[j].target]]

\* lines 189-194: in_degree[target_file] += 1 once per such listing
build_in_degree(corrections) ==
    [f \in FileNames |->
        LET Mine(e) == e.target = f /\ e.control \in TargetSet(corrections)
        IN Len(SelectSeq(EdgeList(corrections, 1), Mine))]

RECURSIVE Orders(_)
\* the orders in which iterating a set of strings can yield its elements
Orders(S) ==
    IF S = {} THEN {<<>>}
    ELSE UNION { {<<x>> \o rest : rest \in Orders(S \ {x})} : x \in S }

always_ready(deg, dependent) == TRUE

\* line 213: if in_degree[dependent] == 0
ready(deg, dependent) == deg[dependent] = 0

RECURSIVE update_dependents(_, _, _, _)
\* lines 211-214, from position k of graph[current_file]
update_dependents(list, k, deg, q) ==
    IF k > Len(list) THEN [in_degree |-> deg, queue |-> q]
    ELSE LET d == list[k]
             deg1 == [deg EXCEPT ![d] = @ - 1]
         IN update_dependents(list, k + 1, deg1,
                              IF ready(deg1, d) THEN Append(q, d) ELSE q)

(***************************************************************************)
(* The passes and the synthetic control as run_workflow calls them         *)
(***************************************************************************)
RECURSIVE blank_loop(_, _, _, _, _)
\* blank_corrector.py lines 66-119 from control record i on
blank_loop(env, blank_particles, i, log, size_dim) ==
    IF i > Len(blank_particles)
    THEN [raised |-> FALSE, corrected |-> env, log |-> log]
    ELSE LET blank_particle == blank_particles[i]
             m == Blank_find_matching_particles(env, blank_particle, size_dim)
         IN IF m.raised
            THEN [raised |-> TRUE, corrected |-> env, log |-> log]
            ELSE IF Len(m.rows) > 0
            THEN LET eliminated_particle_id == Blank_find_closest_particle(m.rows)
                     eliminated == Loc(env, eliminated_particle_id)
                     c == Blank_size_column(size_dim, eliminated, blank_particle)
                     size_difference == Abs(eliminated[c] - blank_particle[c])
                 IN blank_loop(Drop(env, eliminated_particle_id), blank_particles,
                               NextControl(i, TRUE),
                               Append(log, BlankRecord(blank_particle, eliminated,
                                                       size_difference)),
                               size_dim)
            ELSE blank_loop(env, blank_particles, NextControl(i, FALSE), log, size_dim)

\* BlankCorrector.apply_blank_correction: (env_particles_copy, elimination_log)
apply_blank_correction(environmental, blank_particles, size_dim) ==
    blank_loop(environmental, blank_particles, 1, <<>>, size_dim)

RECURSIVE blind_inner(_, _, _, _, _, _)
\* blind_corrector.py lines 122-160 from control record i on, in one sample group
blind_inner(env, group, blind, i, log, sample_name) ==
    IF i > Len(blind)
    THEN [corrected |-> env, log |-> log]
    ELSE LET blind_particle == blind[i]
             matching_particles == Blind_find_matching_particles(group, blind_particle)
         IN IF Len(matching_particles) > 0
            THEN LET eliminated_particle_id ==
                         Blind_find_closest_particle(matching_particles)
                 IN IF eliminated_particle_id \in Index(env)
                    THEN LET eliminated == Loc(env, eliminated_particle_id)
                             size_difference ==
                                 Abs(eliminated.size_geom_mean
                                     - blind_particle.blind_size_geom_mean)
                         IN blind_inner(Drop(env, eliminated_particle_id),
                                        DropFromGroup(group, eliminated_particle_id),
                                        blind, NextControl(i, TRUE),
                                        Append(log, BlindRecord(blind_particle, eliminated,
                                                                sample_name,
                                                                size_difference)),
                                        sample_name)
                    ELSE blind_inner(env, group, blind, NextControl(i, FALSE), log,
                                     sample_name)
            ELSE blind_inner(env, group, blind, NextControl(i, FALSE), log, sample_name)

RECURSIVE blind_outer(_, _, _, _, _)
\* blind_corrector.py lines 118-163 from sample group g on
blind_outer(environmental, env, blind, g, log) ==
    IF g > Len(GroupKeys(environmental))
    THEN [corrected |-> env, log |-> log]
    ELSE LET sample_name == GroupKeys(environmental)[g]
             r == blind_inner(env, GroupOf(environmental, sample_name), blind, 1, log,
                              sample_name)
         IN blind_outer(environmental, r.corrected, blind, g + 1, r.log)

\* BlindCorrector.apply_blind_correction: (env_particles_copy, elimination_log)
apply_blind_correction(environmental, blind) ==
    blind_outer(environmental, environmental, blind, 1, <<>>)

RECURSIVE synthetic_groups(_, _, _, _)
\* blind_corrector.py lines 65-75: the selections of the phenotype groups from
\* group k on, concatenated, for every order the sort may leave ties in
synthetic_groups(pool, keys, k, n) ==
    IF k > Len(keys)
    THEN {<<>>}
    ELSE {iloc_step(sorted, n) \o rest :
             sorted \in sort_values(PhenotypeGroup(pool, keys[k])),
             rest \in synthetic_groups(pool, keys, k + 1, n)}

\* BlindCorrector.create_synthetic_blind: the frames it can return
create_synthetic_blind(pool) ==
    IF Len(pool) = 0 \/ nunique(pool) = 0
    THEN {<<>>}
    ELSE synthetic_groups(pool, PhenotypeKeys(pool), 1, nunique(pool))

(***************************************************************************)
(* ExcelLoader.load_sample and ParticleProcessor.process_particles         *)
(***************************************************************************)
\* the data frame read from a file, with the sample name column added
load_sample(rows, sample_name) ==
    [i \in DOMAIN rows |->
        [particle_id |-> rows[i].particle_id, sample_name |-> sample_name,
         polymer_type |-> rows[i].polymer_type, color |-> rows[i].color,
         shape |-> rows[i].shape, size_1 |-> rows[i].size_1, size_2 |-> rows[i].size_2]]

\* np.sqrt(size_1 * size_2) on dimensions whose product is a square
geometric_mean(s1, s2) ==
    LET lo == IF s1 < s2 THEN s1 ELSE s2
        hi == IF s1 < s2 THEN s2 ELSE s1
    IN CHOOSE r \in lo..hi : r * r = s1 * s2

\* exclude_polymers, calculate_geometric_mean_size, apply_size_filter,
\* standardize_shape_color and set_particle_id_as_index, in this order; the
\* files carry no fraction_analysed column, so amplify_particles returns its
\* input
process_particles(df) ==
    LET NotExcluded(r) == r.polymer_type \notin excluded_polymers
        InRange(r) == r.size_1 >= size_filter_highpass /\ r.size_1 < size_filter_lowpass
        kept == SelectSeq(SelectSeq(df, NotExcluded), InRange)
    IN [i \in DOMAIN kept |->
           [id |-> kept[i].particle_id, sample_name |-> kept[i].sample_name,
            polymer_type |-> kept[i].polymer_type,
            color |-> color_standardization(kept[i].color),
            shape |-> shape_standardization(kept[i].shape),
            size_1 |-> kept[i].size_1, size_2 |-> kept[i].size_2,
            size_geom_mean |-> geometric_mean(kept[i].size_1, kept[i].size_2)]]

(***************************************************************************)
(* CorrectionWorkflow._load_file, _get_processed_file and run_workflow     *)
(***************************************************************************)
\* no file loaded, processed or cached yet
NoCounts ==
    [kind \in {"load_sample", "process_particles", "loaded_files", "processed_files"} |->
        [f \in FileNames |-> 0]]

\* f[k] = v, adding k to the domain when it is new
Put(f, k, v) == [x \in DOMAIN f \cup {k} |-> IF x = k THEN v ELSE f[x]]

\* one more operation of the given kind on the file
Count(counts, kind, filename) ==
    [counts EXCEPT ![kind] = [@ EXCEPT ![filename] = @ + 1]]

\* lines 240-262: the cached frame, or the file read from disk and cached
load_file(filename, st) ==
    IF filename \in DOMAIN st.loaded_files
    THEN [st EXCEPT !.data = st.loaded_files[filename]]
    ELSE IF ~disk[filename].exists
    THEN [st EXCEPT !.raised = "FileNotFoundError"]
    ELSE LET data == load_sample(disk[filename].rows, filename)
         IN [st EXCEPT !.data = data,
                       !.loaded_files = Put(st.loaded_files, filename, data),
                       !.op_counts = Count(Count(st.op_counts, "load_sample", filename),
                                           "loaded_files", filename)]

\* the processed frame is returned and the cache is left as it is
return_uncached(st, filename, processed_data) == [st EXCEPT !.data = processed_data]

\* lines 281-284: the processed frame is cached and returned
store_processed(st, filename, processed_data) ==
    [st EXCEPT !.data = processed_data,
               !.processed_files = Put(st.processed_files, filename, processed_data),
               !.op_counts = Count(st.op_counts, "processed_files", filename)]

\* the file is loaded and processed on every call
reprocess_file(filename, st) ==
    LET l == load_file(filename, st)
    IN IF l.raised # ""
       THEN l
       ELSE store_processed(
                [l EXCEPT !.op_counts = Count(l.op_counts, "process_particles", filename)],
                filename, process_particles(l.data))

\* lines 264-284: the cached frame, or the file loaded, processed and cached
get_processed_file(filename, st) ==
    IF filename \in DOMAIN st.processed_files
    THEN [st EXCEPT !.data = st.processed_files[filename]]
    ELSE LET l == load_file(filename, st)
         IN IF l.raised # ""
            THEN l
            ELSE store_processed(
                     [l EXCEPT !.op_counts = Count(l.op_counts, "process_particles",
                                                   filename)],
                     filename, process_particles(l.data))

\* line 376: size_geom_mean is relabelled blind_size_geom_mean
rename(df) ==
    [i \in DOMAIN df |->
        [c \in (DOMAIN df[i] \ {"size_geom_mean"}) \cup {"blind_size_geom_mean"} |->
            IF c = "blind_size_geom_mean" THEN df[i].size_geom_mean ELSE df[i][c]]]

\* pd.concat(control_datasets, ignore_index=True)
concat_ignore_index(df) == [i \in DOMAIN df |-> [df[i] EXCEPT !.id = i - 1]]

RECURSIVE get_processed_files(_, _, _, _)
\* lines 371-378: the control frames fetched in turn, relabelled and collected
get_processed_files(list, k, st, control_datasets) ==
    IF k > Len(list)
    THEN [st |-> st, control_datasets |-> control_datasets]
    ELSE LET c == get_processed_file(list[k], st)
         IN IF c.raised # ""
            THEN [st |-> c, control_datasets |-> control_datasets]
            ELSE get_processed_files(list, k + 1, c, control_datasets \o rename(c.data))

\* detect_circular_dependencies is called; run_workflow raises on any error
FlowDetect ==
    /\ wpc = "detect"
    /\ circular_errors' = detect_circular_dependencies(correction_config)
    /\ IF circular_errors' # <<>>
       THEN wpc' = "raised" /\ raised' = "circular"
       ELSE wpc' = "resolve" /\ raised' = raised
    /\ UNCHANGED <<correction_config, entry, graph, in_degree, queue,
                   processing_order, si, disk, runVars>>
    /\ UNCHANGED notFlowVars

\* lines 172-198: the graph, the in-degrees and the initial queue
ResolveBuild ==
    /\ wpc = "resolve"
    /\ graph' = build_graph(correction_config)
    /\ in_degree' = build_in_degree(correction_config)
    /\ \E q \in Orders({f \in all_files(correction_config) :
                          build_in_degree(correction_config)[f] = 0}) :
           queue' = q
    /\ processing_order' = <<>>
    /\ wpc' = "kahn"
    /\ UNCHANGED <<correction_config, entry, circular_errors, raised, si,
                   disk, runVars>>
    /\ UNCHANGED notFlowVars

\* lines 200-214: one iteration of the while loop
KahnStep ==
    /\ wpc = "kahn"
    /\ queue # <<>>
    /\ LET current_file == Head(queue)
           u == update_dependents(graph[current_file], 1, in_degree, Tail(queue))
       IN /\ processing_order' =
                IF current_file \in TargetSet(correction_config)
                THEN Append(processing_order,
                            [target |-> current_file,
                             controls |-> ControlsOf(correction_config, current_file)])
                ELSE processing_order
          /\ in_degree' = u.in_degree
          /\ queue' = u.queue
    /\ UNCHANGED <<correction_config, entry, circular_errors, raised, graph, wpc, si,
                   disk, runVars>>
    /\ UNCHANGED notFlowVars

\* lines 216-217 and 342-343: the order is returned; run_workflow raises when
\* it is empty
KahnReturn ==
    /\ wpc = "kahn"
    /\ queue = <<>>
    /\ IF entry = "resolve_processing_order"
       THEN wpc' = "returned" /\ raised' = raised
       ELSE IF processing_order = <<>>
       THEN wpc' = "raised" /\ raised' = "no_valid_corrections"
       ELSE wpc' = "steps" /\ raised' = raised
    /\ UNCHANGED <<correction_config, entry, circular_errors, graph, in_degree, queue,
                   processing_order, si, disk, runVars>>
    /\ UNCHANGED notFlowVars

\* the step is given up and the loop goes on with the next step
skip_failed_step(i) == [wpc |-> "steps", si |-> i + 1]

\* an exception raised in the loop body leaves run_workflow at step i
abort_run(i) == [wpc |-> "raised", si |-> i]

\* lines 286-322: the corrected frame is exported under the target's name
save_corrected_file(files, original_filename, data) ==
    Put(files, original_filename, [kind |-> "particles", rows |-> data])

\* lines 398-412: the entry of the step in results['processed_files']
correction_result(target_file, control_files, original_count, corrected_data, log) ==
    [target_file |-> target_file,
     control_files |-> control_files,
     original_particles |-> original_count,
     final_particles |-> Len(corrected_data),
     particles_eliminated |-> original_count - Len(corrected_data),
     output_file |-> target_file,
     elimination_log |-> log]

\* the cache keeps the frame it held
keep_processed(cache, target_file, corrected_data) == cache

\* the corrected frame replaces every entry of the cache
cache_everywhere(cache, target_file, corrected_data) ==
    [f \in DOMAIN cache \cup {target_file} |-> corrected_data]

\* lines 391-392: processed_files[target_file] = corrected_data
cache_corrected(cache, target_file, corrected_data) ==
    Put(cache, target_file, corrected_data)

\* the step raises err with the caches as the calls made so far left them
StepRaises(st, err) ==
    /\ loaded_files' = st.loaded_files
    /\ processed_files' = st.processed_files
    /\ op_counts' = st.op_counts
    /\ raised' = err
    /\ wpc' = abort_run(si).wpc
    /\ si' = abort_run(si).si
    /\ UNCHANGED <<saved_files, results>>

\* lines 391-416: the corrected frame is cached and saved, the result recorded
StepCompletes(st, target_file, control_files, original_count, corrected_data, log) ==
    /\ loaded_files' = st.loaded_files
    /\ processed_files' = cache_corrected(st.processed_files, target_file, corrected_data)
    /\ op_counts' = Count(st.op_counts, "processed_files", target_file)
    /\ saved_files' = save_corrected_file(saved_files, target_file, corrected_data)
    /\ results' = Append(results,
                         correction_result(target_file, control_files,
                                           original_count, corrected_data,
                                           log))
    /\ si' = si + 1
    /\ UNCHANGED <<wpc, raised>>

\* the single-control pass is run against the first control whenever there is one
first_control_only(control_files) == Len(control_files) >= 1

\* line 360: len(control_files) == 1 selects the single-control pass
single_control(control_files) == Len(control_files) = 1

\* lines 353-416: one correction step. A missing file raises in _load_file,
\* an unassigned size_matching_dimension in the single-control pass, and
\* pd.concat of an empty list of control frames raises ValueError
FlowStep ==
    /\ wpc = "steps"
    /\ si <= Len(processing_order)
    /\ LET target_file == processing_order[si].target
           control_files == processing_order[si].controls
           s0 == [loaded_files |-> loaded_files, processed_files |-> processed_files,
                  op_counts |-> op_counts, raised |-> "", data |-> <<>>]
           s1 == get_processed_file(target_file, s0)
           target_data == s1.data
           original_particle_count == Len(target_data)
       IN IF s1.raised # ""
          THEN StepRaises(s1, s1.raised)
          ELSE IF single_control(control_files)
          THEN LET s2 == get_processed_file(control_files[1], s1)
                   r == apply_blank_correction(target_data, s2.data,
                                               size_matching_dimension)
               IN IF s2.raised # ""
                  THEN StepRaises(s2, s2.raised)
                  ELSE IF r.raised
                  THEN StepRaises(s2, "AttributeError")
                  ELSE StepCompletes(s2, target_file, control_files,
                                     original_particle_count, r.corrected, r.log)
          ELSE LET g == get_processed_files(control_files, 1, s1, <<>>)
               IN IF g.st.raised # ""
                  THEN StepRaises(g.st, g.st.raised)
                  ELSE IF Len(control_files) = 0
                  THEN StepRaises(g.st, "ValueError")
                  ELSE \E synthetic_control \in
                              create_synthetic_blind(
                                  concat_ignore_index(g.control_datasets)) :
                          LET r == apply_blind_correction(target_data, synthetic_control)
                          IN StepCompletes(g.st, target_file, control_files,
                                           original_particle_count, r.corrected, r.log)
    /\ UNCHANGED <<correction_config, entry, circular_errors, graph, in_degree, queue,
                   processing_order, disk>>
    /\ UNCHANGED notFlowVars

\* lines 418-421: return results
FlowReturn ==
    /\ wpc = "steps"
    /\ si > Len(processing_order)
    /\ wpc' = "returned"
    /\ UNCHANGED <<correction_config, entry, circular_errors, raised, graph, in_degree,
                   queue, processing_order, si, disk, runVars>>
    /\ UNCHANGED notFlowVars

(***************************************************************************)
(* examples/run_corrections.py: run_workflow                               *)
(***************************************************************************)
\* the files the declarations name, targets and controls
referenced_files(corrections) ==
    TargetSet(corrections)
      \cup UNION {{ControlsOf(corrections, t)[j] : j \in DOMAIN ControlsOf(corrections, t)} :
                     t \in TargetSet(corrections)}

\* validate_config, lines 40-103, on a workflow object of its own: False on a
\* circular dependency or a missing file
validate_config(corrections) ==
    /\ detect_circular_dependencies(corrections) = <<>>
    /\ \A f \in referenced_files(corrections) : disk[f].exists

\* lines 126-129: the configuration is validated first and nothing is run
\* when the validation fails
CliValidate ==
    /\ entry = "cli_run"
    /\ wpc = "validate"
    /\ IF validate_config(correction_config)
       THEN wpc' = "detect" /\ raised' = raised
       ELSE wpc' = "rejected" /\ raised' = "validation_failed"
    /\ UNCHANGED <<correction_config, circular_errors, entry, graph, in_degree, queue,
                   processing_order, si, disk, runVars>>
    /\ UNCHANGED notFlowVars

\* lines 163-174: the results, elimination logs included, are written to
\* workflow_report.json once run_workflow has returned
CliReport ==
    /\ entry = "cli_run"
    /\ wpc = "returned"
    /\ saved_files' = Put(saved_files, "workflow_report",
                          [kind |-> "report",
                           rows |-> [i \in DOMAIN results |-> results[i].elimination_log]])
    /\ wpc' = "reported"
    /\ UNCHANGED <<correction_config, circular_errors, entry, raised, graph, in_degree,
                   queue, processing_order, si, disk, loaded_files, processed_files,
                   results, op_counts>>
    /\ UNCHANGED notFlowVars

(***************************************************************************)
(* CorrectionWorkflow.load_correction_config and _validate_config          *)
(***************************************************************************)
\* the values yaml.safe_load returns
Str(x) == [type |-> "str", value |-> x]

Number == [type |-> "int"]

Null == [type |-> "null"]

List(items) == [type |-> "list", items |-> items]

Dict(entries) == [type |-> "dict", entries |-> entries]

\* a key the mapping does not have
Absent == [type |-> "absent"]

\* the top-level mapping of a configuration file, by section
Document(corrections, output, settings) ==
    [type |-> "document", corrections |-> corrections, output |-> output,
     settings |-> settings]

\* isinstance(v, str), isinstance(v, list), isinstance(v, dict)
is_str(v) == v.type = "str"

is_list(v) == v.type = "list"

is_dict(v) == v.type = "dict"

\* key in v: membership raises TypeError on None and on a number, is a
\* substring test on a string and an element test on a list
contains(v, key) ==
    IF v.type \in {"null", "int"} THEN "TypeError"
    ELSE IF v.type = "document" THEN (IF v[key] # Absent THEN "yes" ELSE "no")
    ELSE IF v.type = "dict"
    THEN (IF \E i \in DOMAIN v.entries : v.entries[i].key = Str(key) THEN "yes" ELSE "no")
    ELSE IF v.type = "list"
    THEN (IF \E i \in DOMAIN v.items : v.items[i] = Str(key) THEN "yes" ELSE "no")
    ELSE IF v.value = key THEN "yes" ELSE "no"

\* v[key] of a mapping that has the key
item(v, key) ==
    IF v.type = "document" THEN v[key]
    ELSE v.entries[CHOOSE i \in DOMAIN v.entries : v.entries[i].key = Str(key)].value

\* lines 107-109: every element of a control list is a string
all_strings(control_files) ==
    \A j \in DOMAIN control_files.items : is_str(control_files.items[j])

\* lines 98-111: the entries of the corrections mapping, one by one
valid_entry(e) ==
    /\ is_str(e.key)
    /\ \/ is_str(e.value)
       \/ is_list(e.value) /\ all_strings(e.value)

\* lines 87-111: the error _validate_config raises, "" when it returns
validate(doc) ==
    IF contains(doc, "corrections") = "TypeError" THEN "TypeError"
    ELSE IF contains(doc, "corrections") = "no" THEN "ValueError"
    ELSE IF doc.type # "document" THEN "TypeError"
    ELSE IF ~is_dict(doc.corrections) THEN "ValueError"
    ELSE IF \A i \in DOMAIN doc.corrections.entries : valid_entry(doc.corrections.entries[i])
    THEN ""
    ELSE "ValueError"

\* load_correction_config, lines 60-67: the file is opened, the data directory
\* is taken over and the parsed document is assigned to correction_config
LoadOpen ==
    /\ lpc = "call"
    /\ IF ~load_args.config_file.exists
       THEN /\ lpc' = "raised"
            /\ load_error' = "FileNotFoundError"
            /\ UNCHANGED <<document, data_directory>>
       ELSE /\ data_directory' = IF load_args.data_directory # <<>>
                                 THEN load_args.data_directory
                                 ELSE data_directory
            /\ document' = load_args.config_file.content
            /\ lpc' = "validate"
            /\ UNCHANGED load_error
    /\ UNCHANGED <<load_args, output_directory>>
    /\ UNCHANGED <<passVars, synVars, flowVars, callVars, historyVars>>

\* line 72: _validate_config
LoadValidate ==
    /\ lpc = "validate"
    /\ IF validate(document) # ""
       THEN lpc' = "raised" /\ load_error' = validate(document)
       ELSE lpc' = "apply" /\ load_error' = load_error
    /\ UNCHANGED <<load_args, document, data_directory, output_directory>>
    /\ UNCHANGED <<passVars, synVars, flowVars, callVars, historyVars>>

\* lines 74-85: the output directory and the size matching dimension are
\* taken from the sections that give them
LoadApply ==
    /\ lpc = "apply"
    /\ LET has_output == contains(document, "output") = "yes"
           out_dir == IF has_output THEN contains(document.output, "directory") ELSE "no"
           has_settings == contains(document, "settings") = "yes"
           dimension == IF has_settings /\ out_dir # "TypeError"
                        THEN contains(document.settings, "size_matching_dimension")
                        ELSE "no"
       IN /\ output_directory' =
                IF out_dir = "yes"
                THEN data_directory \o item(document.output, "directory").value
                ELSE output_directory
          /\ size_matching_dimension' =
                IF dimension = "yes"
                THEN item(document.settings, "size_matching_dimension").value
                ELSE size_matching_dimension
          /\ IF out_dir = "TypeError" \/ dimension = "TypeError"
             THEN lpc' = "raised" /\ load_error' = "TypeError"
             ELSE lpc' = "loaded" /\ load_error' = load_error
    /\ UNCHANGED <<load_args, document, data_directory>>
    /\ UNCHANGED <<environmental_particles, control_particles, mode, env_particles_copy,
                   sample_group, elimination_log, gi, ci, ppc>>
    /\ UNCHANGED <<synVars, flowVars, callVars, historyVars>>

(***************************************************************************)
(* Specifications.                                                         *)
(***************************************************************************)
FlowIdle ==
    /\ correction_config = <<>>
    /\ entry = "run_workflow"
    /\ wpc = "detect"
    /\ raised = ""
    /\ circular_errors = <<>>
    /\ graph = [f \in FileNames |-> <<>>]
    /\ in_degree = [f \in FileNames |-> 0]
    /\ queue = <<>>
    /\ processing_order = <<>>
    /\ si = 1
    /\ loaded_files = <<>>
    /\ processed_files = <<>>
    /\ saved_files = <<>>
    /\ disk = ScenarioDisk
    /\ results = <<>>
    /\ op_counts = NoCounts

\* the data directory and output directory a new workflow object has
LoadIdle ==
    /\ load_args = [config_file |-> [exists |-> FALSE, content |-> Null],
                    data_directory |-> <<>>]
    /\ document = Document(Absent, Absent, Absent)
    /\ data_directory = <<"data">>
    /\ output_directory = <<"output">>
    /\ lpc = "idle"
    /\ load_error = ""

\* no direct call of _find_closest_particle, no earlier run
CallIdle ==
    /\ call_matching = <<>>
    /\ closest_particle_id = [raised |-> "", id |-> 0]
    /\ previous_results = <<>>

SynIdle ==
    /\ blind_particles = <<>>
    /\ num_blind_samples = 0
    /\ sorted_group = <<>>
    /\ synthetic_blind = <<>>
    /\ pgi = 0
    /\ spc = "start"

PassIdle ==
    /\ mode = "blank"
    /\ environmental_particles = <<>>
    /\ control_particles = <<>>
    /\ size_matching_dimension = "unset"
    /\ env_particles_copy = <<>>
    /\ sample_group = <<>>
    /\ elimination_log = <<>>
    /\ gi = 0
    /\ ci = 1
    /\ ppc = "loop"

InitSyn ==
    /\ blind_particles \in
         {WithBlindIds(r) : r \in SeqsUpTo(BlindRows, MaxBlind) \cup {ScenarioBlinds}}
    /\ num_blind_samples = 0
    /\ sorted_group = <<>>
    /\ synthetic_blind = <<>>
    /\ pgi = 0
    /\ spc = "start"
    /\ PassIdle
    /\ FlowIdle
    /\ LoadIdle
    /\ CallIdle

NextSyn ==
    \/ SynStart
    \/ SynGroup
    \/ SynReturn

SpecSyn == InitSyn /\ [][NextSyn]_vars

(***************************************************************************)
(* The correction passes on every bounded input.                           *)
(***************************************************************************)
InitPass ==
    /\ mode \in {"blank", "blind"}
    /\ environmental_particles \in {WithIds(r) : r \in SeqsUpTo(TargetRows, MaxTarget)}
    /\ control_particles \in
         IF mode = "blank"
         THEN {WithIds(r) : r \in SeqsUpTo(BlankRows, MaxControl)}
         ELSE {WithBlindIds(r) : r \in SeqsUpTo(BlankRows, MaxControl)}
    /\ size_matching_dimension \in
         IF mode = "blank" THEN SizeDims ELSE {"unset"}
    /\ env_particles_copy = environmental_particles
    /\ sample_group = <<>>
    /\ elimination_log = <<>>
    /\ gi = 0
    /\ ci = 1
    /\ ppc = "loop"
    /\ SynIdle
    /\ FlowIdle
    /\ LoadIdle
    /\ CallIdle

NextPass ==
    \/ BlankIter
    \/ BlankReturn
    \/ BlindNextGroup
    \/ BlindIter
    \/ BlindReturn

SpecPass == InitPass /\ [][NextPass]_vars

(***************************************************************************)
(* The workflow on every bounded configuration.                            *)
(***************************************************************************)
\* a control entry: a bare file name or a list of file names
ControlEntries ==
    {[is_str |-> TRUE, name |-> f] : f \in FileNames}
      \cup {[is_str |-> FALSE, names |-> l] : l \in SeqsUpTo(FileNames, MaxControlFiles)}

\* the insertion orders of the targets of a corrections mapping
TargetOrders == UNION {Orders(S) : S \in SUBSET FileNames}

InitFlow ==
    /\ \E o \in TargetOrders : \E e \in [DOMAIN o -> ControlEntries] :
          correction_config = [i \in DOMAIN o |-> [target |-> o[i], controls |-> e[i]]]
    /\ entry \in {"run_workflow", "resolve_processing_order"}
    /\ wpc = IF entry = "run_workflow" THEN "detect" ELSE "resolve"
    /\ raised = ""
    /\ circular_errors = <<>>
    /\ graph = [f \in FileNames |-> <<>>]
    /\ in_degree = [f \in FileNames |-> 0]
    /\ queue = <<>>
    /\ processing_order = <<>>
    /\ si = 1
    /\ loaded_files = <<>>
    /\ processed_files = <<>>
    /\ saved_files = <<>>
    /\ disk = ScenarioDisk
    /\ results = <<>>
    /\ op_counts = NoCounts
    /\ PassIdle
    /\ SynIdle
    /\ LoadIdle
    /\ CallIdle

NextFlow ==
    \/ FlowDetect
    \/ ResolveBuild
    \/ KahnStep
    \/ KahnReturn
    \/ FlowStep
    \/ FlowReturn

SpecFlow == InitFlow /\ [][NextFlow]_vars

(***************************************************************************)
(* A run of the workflow, from the library or from the command line, on    *)
(* every bounded configuration and data directory.                         *)
(***************************************************************************)
RunTargetOrders ==
    UNION {Orders(S) : S \in {T \in SUBSET FileNames : Cardinality(T) <= MaxRunTargets}}

InitRun ==
    /\ \E o \in RunTargetOrders : \E e \in [DOMAIN o -> ControlEntries] :
          correction_config = [i \in DOMAIN o |-> [target |-> o[i], controls |-> e[i]]]
    /\ entry \in {"run_workflow", "cli_run"}
    /\ wpc = IF entry = "cli_run" THEN "validate" ELSE "detect"
    /\ raised = ""
    /\ circular_errors = <<>>
    /\ graph = [f \in FileNames |-> <<>>]
    /\ in_degree = [f \in FileNames |-> 0]
    /\ queue = <<>>
    /\ processing_order = <<>>
    /\ si = 1
    /\ loaded_files = <<>>
    /\ processed_files = <<>>
    /\ saved_files = <<>>
    /\ disk \in [FileNames -> DiskFiles]
    /\ results = <<>>
    /\ op_counts = NoCounts
    /\ mode = "blank"
    /\ environmental_particles = <<>>
    /\ control_particles = <<>>
    /\ size_matching_dimension \in SizeDims
    /\ env_particles_copy = <<>>
    /\ sample_group = <<>>
    /\ elimination_log = <<>>
    /\ gi = 0
    /\ ci = 1
    /\ ppc = "loop"
    /\ SynIdle
    /\ LoadIdle
    /\ CallIdle

NextRun ==
    \/ CliValidate
    \/ FlowDetect
    \/ ResolveBuild
    \/ KahnStep
    \/ KahnReturn
    \/ FlowStep
    \/ FlowReturn
    \/ CliReport

SpecRun == InitRun /\ [][NextRun]_vars

(***************************************************************************)
(* Properties of the correction passes.                                    *)
(***************************************************************************)
DistinctIds(df) == \A i, j \in DOMAIN df : i # j => df[i].id # df[j].id

EliminatedIds == {elimination_log[i].eliminated_particle_id : i \in DOMAIN elimination_log}

ControlIdOf(rec) ==
    IF mode = "blank" THEN rec.blank_particle_id ELSE rec.blind_particle_id

ControlSizeOf(c) ==
    IF mode = "blank" THEN c.size_geom_mean ELSE c.blind_size_geom_mean

\* the pool the matcher is run against
CandidatePool == IF mode = "blank" THEN env_particles_copy ELSE sample_group

Eliminates == Len(elimination_log') = Len(elimination_log) + 1

\* C1: over a target pool with pairwise distinct ids the working pool and the
\* elimination log partition the pre-pool, at every point of a pass and so at
\* its return: |pre| = |post| + |log|, post ids and eliminated ids are
\* disjoint and their union is the pre-pool's id set.
C1_Partition ==
    DistinctIds(environmental_particles) =>
        /\ Len(environmental_particles)
             = Len(env_particles_copy) + Len(elimination_log)
        /\ Index(env_particles_copy) \cap EliminatedIds = {}
        /\ Index(env_particles_copy) \cup EliminatedIds
             = Index(environmental_particles)

C1_Witness ==
    /\ ppc = "done"
    /\ Len(elimination_log) = 2
    /\ Len(env_particles_copy) = 1

\* C2 as stated: in every pass, single-control or grouped, each control id is
\* in at most one elimination record and the log is no longer than the
\* control pool.
C2_Original ==
    /\ \A i, j \in DOMAIN elimination_log :
          i # j => ControlIdOf(elimination_log[i]) # ControlIdOf(elimination_log[j])
    /\ Len(elimination_log) <= Len(control_particles)

\* C2 amended: in the single-control pass each control id is in at most one
\* elimination record and the log is no longer than the control pool; in the
\* grouped pass each control id is in at most one elimination record per
\* sample group and the log is no longer than the control pool's size times
\* the number of sample names in the target pool.
C2_Amended ==
    /\ mode = "blank" => C2_Original
    /\ mode = "blind" =>
        /\ \A i, j \in DOMAIN elimination_log :
              (i # j /\ elimination_log[i].sample_name = elimination_log[j].sample_name)
                 => elimination_log[i].blind_particle_id
                      # elimination_log[j].blind_particle_id
        /\ Len(elimination_log)
             <= Len(control_particles) * Len(GroupKeys(environmental_particles))

C2_Witness ==
    /\ mode = "blind"
    /\ ppc = "done"
    /\ Len(elimination_log) > Len(control_particles)

\* C3: in a grouped pass over distinct ids no particle id is eliminated twice,
\* the group view holds only ids that are still in the global pool, and an
\* elimination removes the particle from the group view and from the global
\* pool in the same step.
C3_State ==
    (mode = "blind" /\ DistinctIds(environmental_particles)) =>
        /\ \A i, j \in DOMAIN elimination_log :
              i # j => elimination_log[i].eliminated_particle_id
                         # elimination_log[j].eliminated_particle_id
        /\ Index(sample_group) \subseteq Index(env_particles_copy)

C3_Step ==
    (mode = "blind" /\ Eliminates) =>
        LET e == elimination_log'[Len(elimination_log')].eliminated_particle_id
        IN /\ e \in Index(sample_group) /\ e \in Index(env_particles_copy)
           /\ e \notin Index(sample_group')
           /\ e \notin Index(env_particles_copy')

C3_NoDoubleElimination == [](C3_State) /\ [][C3_Step]_vars

C3_Witness ==
    /\ mode = "blind"
    /\ gi = 2
    /\ Len(elimination_log) = 2
    /\ elimination_log[1].sample_name # elimination_log[2].sample_name
    /\ sample_group # <<>>

\* C4: an eliminated particle has the control record's phenotype triple, its
\* size difference is minimal among the phenotype-matching particles of the
\* candidate pool at that moment, it is the first of the pool with that
\* difference, and the logged size difference is that difference; targets P1
\* (100) and P2 (180) with one control of size 110 end as post-pool {P2} and
\* one record C1 -> P1 with size difference 10.
C4_Step ==
    Eliminates =>
        LET rec == elimination_log'[Len(elimination_log')]
            ctrl == control_particles[ci]
            pool == CandidatePool
            Diff(row) == Abs(row.size_geom_mean - ControlSizeOf(ctrl))
        IN /\ ControlIdOf(rec) = ctrl.id
           /\ \E k \in DOMAIN pool :
                /\ pool[k].id = rec.eliminated_particle_id
                /\ SamePhenotype(pool[k], ctrl)
                /\ rec.size_difference = Diff(pool[k])
                /\ \A j \in DOMAIN pool :
                      SamePhenotype(pool[j], ctrl) => Diff(pool[k]) <= Diff(pool[j])
                /\ \A j \in 1..(k - 1) :
                      SamePhenotype(pool[j], ctrl) => Diff(pool[k]) < Diff(pool[j])

C4_ExampleInput ==
    /\ Len(environmental_particles) = 2
    /\ Len(control_particles) = 1
    /\ environmental_particles[1].size_geom_mean = 100
    /\ environmental_particles[2].size_geom_mean = 180
    /\ environmental_particles[1].sample_name = environmental_particles[2].sample_name
    /\ SamePhenotype(environmental_particles[1], control_particles[1])
    /\ SamePhenotype(environmental_particles[2], control_particles[1])
    /\ ControlSizeOf(control_particles[1]) = 110

C4_Example ==
    (C4_ExampleInput /\ ppc = "done") =>
        /\ env_particles_copy = <<environmental_particles[2]>>
        /\ Len(elimination_log) = 1
        /\ ControlIdOf(elimination_log[1]) = control_particles[1].id
        /\ elimination_log[1].eliminated_particle_id = environmental_particles[1].id
        /\ elimination_log[1].size_difference = 10

C4_ClosestFirst == [](C4_Example) /\ [][C4_Step]_vars

C4_Witness ==
    /\ C4_ExampleInput
    /\ mode = "blank"
    /\ ppc = "done"
    /\ Len(elimination_log) = 1

\* C5 as stated: in the single-control pass a control record eliminates
\* exactly one particle if and only if a particle of its phenotype is in the
\* target pool when it is processed, otherwise it eliminates nothing, and the
\* pass continues; a pass over an empty control pool or an empty target pool
\* returns an empty log without error.
C5_Step ==
    (mode = "blank" /\ ppc = "loop" /\ ci <= Len(control_particles)) =>
        LET ctrl == control_particles[ci]
            has == \E k \in DOMAIN env_particles_copy :
                       SamePhenotype(env_particles_copy[k], ctrl)
        IN /\ has <=> Eliminates
           /\ ~has => elimination_log' = elimination_log
           /\ Len(env_particles_copy') = Len(env_particles_copy) - (IF has THEN 1 ELSE 0)
           /\ ppc' # "raised"

C5_Empty ==
    (mode = "blank" /\ (environmental_particles = <<>> \/ control_particles = <<>>)) =>
        /\ ppc # "raised"
        /\ elimination_log = <<>>

C5_Original == [](C5_Empty) /\ [][C5_Step]_vars

(***************************************************************************)
(* Properties of the synthetic control.                                    *)
(***************************************************************************)
\* the size at rank k of a group in descending order of control size
RankSize(group, k) ==
    CHOOSE v \in {group[i].blind_size_geom_mean : i \in DOMAIN group} :
        /\ Cardinality({i \in DOMAIN group : group[i].blind_size_geom_mean > v}) < k
        /\ k <= Cardinality({i \in DOMAIN group : group[i].blind_size_geom_mean >= v})

CeilDiv(g, n) == (g + n - 1) \div n

\* C7: from N >= 1 distinct sample names, a phenotype group of size g
\* contributes ceil(g / N) particles, those at ranks 1, N+1, 2N+1, ... of the
\* group in descending control size, in that order; sizes {50,60}, {55,65},
\* {52,58} of one phenotype give 2 particles, ranks 1 and 4 (65 and 55).
C7_Subsampling ==
    (spc = "done" /\ Len(blind_particles) > 0) =>
        /\ num_blind_samples = nunique(blind_particles)
        /\ num_blind_samples >= 1
        /\ \A p \in Phenotypes :
            LET group == PhenotypeGroup(blind_particles, p)
                sel == PhenotypeGroup(synthetic_blind, p)
            IN /\ Len(sel) = CeilDiv(Len(group), num_blind_samples)
               /\ \A j \in DOMAIN sel :
                    /\ \E i \in DOMAIN group : group[i] = sel[j]
                    /\ sel[j].blind_size_geom_mean
                         = RankSize(group, 1 + (j - 1) * num_blind_samples)
               /\ \A j, k \in DOMAIN sel :
                    j < k => /\ sel[j].id # sel[k].id
                             /\ sel[j].blind_size_geom_mean >= sel[k].blind_size_geom_mean
        /\ blind_particles = WithBlindIds(ScenarioBlinds) =>
            /\ Len(synthetic_blind) = 2
            /\ synthetic_blind[1].blind_size_geom_mean = 65
            /\ synthetic_blind[2].blind_size_geom_mean = 55

C7_Witness ==
    /\ spc = "done"
    /\ blind_particles = WithBlindIds(ScenarioBlinds)
    /\ num_blind_samples = 3
    /\ Len(synthetic_blind) = 2

(***************************************************************************)
(* load_correction_config on every bounded configuration file.             *)
(***************************************************************************)
\* the elements of a control list: file names and a number
ControlItems == {Str("B"), Str("C"), Number}

\* the value a target is mapped to
ControlValues ==
    {Str("B"), Number, Null, Dict(<<>>)}
      \cup {List(l) : l \in SeqsUpTo(ControlItems, MaxControlFiles)}

\* the keys of the corrections mapping: file names and a number
TargetKeys == {Str("A"), Str("B"), Number}

\* the key orders of a mapping: the keys of a mapping are distinct
KeyOrders ==
    {o \in SeqsUpTo(TargetKeys, MaxRunTargets) :
        \A i, j \in DOMAIN o : i # j => o[i] # o[j]}

OutputValues ==
    {Absent, Null, Dict(<<>>),
     Dict(<<[key |-> Str("directory"), value |-> Str(<<"corrected">>)]>>)}

SettingsValues ==
    {Absent, Null, Dict(<<>>),
     Dict(<<[key |-> Str("size_matching_dimension"), value |-> Str("geometric_mean")]>>)}

\* the documents that are not a mapping: an empty file, a number, a text, a
\* list
OtherDocuments == {Null, Number, Str("corrections"), Str("text"), List(<<>>)}

\* the values of the corrections section that are not a mapping
OtherCorrections == {Absent, Null, Str("A"), List(<<>>)}

InitLoad ==
    /\ \E exists \in BOOLEAN, dir \in {<<>>, <<"given">>} :
          /\ \/ \E doc \in OtherDocuments :
                   load_args = [config_file |-> [exists |-> exists, content |-> doc],
                                data_directory |-> dir]
             \/ \E c \in OtherCorrections, out \in OutputValues, set \in SettingsValues :
                   load_args = [config_file |-> [exists |-> exists,
                                                 content |-> Document(c, out, set)],
                                data_directory |-> dir]
             \/ \E o \in KeyOrders : \E v \in [DOMAIN o -> ControlValues] :
                \E out \in OutputValues, set \in SettingsValues :
                   load_args =
                     [config_file |->
                        [exists |-> exists,
                         content |-> Document(
                             Dict([i \in DOMAIN o |-> [key |-> o[i], value |-> v[i]]]),
                             out, set)],
                      data_directory |-> dir]
    /\ document = Document(Absent, Absent, Absent)
    /\ data_directory = <<"data">>
    /\ output_directory = <<"output">>
    /\ lpc = "call"
    /\ load_error = ""
    /\ PassIdle
    /\ SynIdle
    /\ FlowIdle
    /\ CallIdle

NextLoad ==
    \/ LoadOpen
    \/ LoadValidate
    \/ LoadApply

SpecLoad == InitLoad /\ [][NextLoad]_vars

(***************************************************************************)
(* Properties of the dependency graph.                                     *)
(***************************************************************************)
\* the controls a file lists: the edges of the declarations' graph
Succ(corrections, a) ==
    IF a \in TargetSet(corrections)
    THEN {ControlsOf(corrections, a)[j] : j \in DOMAIN ControlsOf(corrections, a)}
    ELSE {}

RECURSIVE Closure(_, _)
Closure(corrections, S) ==
    LET N == S \cup UNION {Succ(corrections, a) : a \in S}
    IN IF N = S THEN S ELSE Closure(corrections, N)

\* the files reachable from a along one or more edges
ReachPlus(corrections, a) == Closure(corrections, Succ(corrections, a))

OnCycle(corrections, a) == a \in ReachPlus(corrections, a)

Cyclic(corrections) == \E a \in FileNames : OnCycle(corrections, a)

\* a lies on a cycle or depends, directly or transitively, on a target that does
Blocked(corrections, a) ==
    \/ OnCycle(corrections, a)
    \/ \E b \in ReachPlus(corrections, a) : OnCycle(corrections, b)

HasError(kind, file) ==
    \E k \in DOMAIN circular_errors : circular_errors[k] = [kind |-> kind, file |-> file]

\* C8: run_workflow ends a configuration with a cycle by the circular
\* dependency error, with no file loaded, no cache entry and no output
\* written at any time; a file listed as its own control has its own error.
C8_CycleRejected ==
    (entry = "run_workflow" /\ Cyclic(correction_config)) =>
        /\ DOMAIN loaded_files = {}
        /\ DOMAIN processed_files = {}
        /\ DOMAIN saved_files = {}
        /\ wpc \in {"detect", "raised"}
        /\ wpc = "raised" =>
             /\ raised = "circular"
             /\ \A t \in TargetSet(correction_config) :
                   t \in Succ(correction_config, t) => HasError("self", t)

C8_Witness ==
    /\ entry = "run_workflow"
    /\ wpc = "raised"
    /\ raised = "circular"
    /\ Len(correction_config) = 3
    /\ \E t \in TargetSet(correction_config) : ~Blocked(correction_config, t)
    /\ \E t \in TargetSet(correction_config) : HasError("self", t)

\* C9: detect_circular_dependencies returns no error if and only if the graph
\* of the declarations is acyclic, whatever the order of the targets; the
\* search reports a cycle exactly when there is one, so a shared control or a
\* control reached along two paths is not reported.
C9_AcyclicIffNoError ==
    (entry = "run_workflow" /\ wpc # "detect") =>
        /\ circular_errors = <<>> <=> ~Cyclic(correction_config)
        /\ (\E k \in DOMAIN circular_errors : circular_errors[k].kind = "circular")
             <=> Cyclic(correction_config)

C9_Witness ==
    /\ entry = "run_workflow"
    /\ wpc = "resolve"
    /\ circular_errors = <<>>
    /\ \E a, b, c \in FileNames :
          /\ a # b /\ b # c /\ a # c
          /\ a \in TargetSet(correction_config)
          /\ ControlsOf(correction_config, a) = <<b, c>>
          /\ c \in Succ(correction_config, b)

OrderTargets == {processing_order[i].target : i \in DOMAIN processing_order}

\* C10: the order resolve_processing_order builds holds each target at most
\* once with its control list, every target after each of its controls that
\* is a declared target, and, when the queue is exhausted, exactly the
\* declared targets that neither lie on a cycle nor depend on one that does.
C10_TopologicalOrder ==
    wpc \in {"kahn", "steps", "returned"} =>
        /\ \A i, j \in DOMAIN processing_order :
              i # j => processing_order[i].target # processing_order[j].target
        /\ \A i \in DOMAIN processing_order :
              LET t == processing_order[i].target
              IN /\ t \in TargetSet(correction_config)
                 /\ processing_order[i].controls = ControlsOf(correction_config, t)
                 /\ \A c \in Succ(correction_config, t) \cap TargetSet(correction_config) :
                       \E j \in 1..(i - 1) : processing_order[j].target = c
        /\ queue = <<>> =>
              OrderTargets = {t \in TargetSet(correction_config) :
                                 ~Blocked(correction_config, t)}

C10_Witness ==
    /\ entry = "resolve_processing_order"
    /\ wpc = "returned"
    /\ Cyclic(correction_config)
    /\ Len(correction_config) = 3
    /\ Len(processing_order) = 2
    /\ \E i \in DOMAIN processing_order :
          LET cs == processing_order[i].controls
          IN Len(cs) = 2 /\ cs[1] = cs[2] /\ cs[1] \in TargetSet(correction_config)

\* C11: applied to a configuration with a cycle, resolve_processing_order
\* reports a configuration error; it never returns an order that leaves out
\* declared targets.
C11_Original ==
    (entry = "resolve_processing_order" /\ wpc = "returned") =>
        OrderTargets = TargetSet(correction_config)

(***************************************************************************)
(* Properties of a run of the workflow.                                    *)
(***************************************************************************)
StepControls(i) == {processing_order[i].controls[j] : j \in DOMAIN processing_order[i].controls}

\* the ids the step recorded as eliminated from its target
EliminatedBy(result) ==
    {result.elimination_log[j].eliminated_particle_id : j \in DOMAIN result.elimination_log}

\* the position in results of the step that corrected the file, 0 when none did
StepOf(file) ==
    IF \E k \in DOMAIN results : results[k].target_file = file
    THEN CHOOSE k \in DOMAIN results : results[k].target_file = file
    ELSE 0

\* C12: whenever a step uses a declared target as control, that file's own
\* step has completed and the cache holds the corrected pool it wrote, with
\* none of the particles eliminated from it; no record of a later
\* single-control step names an eliminated particle as its control record.
C12_CorrectedControl ==
    /\ (wpc = "steps" /\ si <= Len(processing_order)) =>
          \A c \in StepControls(si) \cap TargetSet(correction_config) :
             /\ StepOf(c) \in 1..(si - 1)
             /\ c \in DOMAIN processed_files /\ c \in DOMAIN saved_files
             /\ processed_files[c] = saved_files[c].rows
             /\ Index(processed_files[c]) \cap EliminatedBy(results[StepOf(c)]) = {}
    /\ \A k \in DOMAIN results :
          LET cs == results[k].control_files
          IN (Len(cs) = 1 /\ cs[1] \in TargetSet(correction_config)) =>
                /\ StepOf(cs[1]) \in 1..(k - 1)
                /\ \A j \in DOMAIN results[k].elimination_log :
                      results[k].elimination_log[j].blank_particle_id
                         \notin EliminatedBy(results[StepOf(cs[1])])

C12_Witness ==
    /\ Len(results) = 2
    /\ results[2].control_files = <<results[1].target_file>>
    /\ Len(results[1].elimination_log) > 0
    /\ Len(results[2].elimination_log) > 0

\* C13: when a file named by a declaration, as target or as control, does not
\* exist, the run is aborted before any processing step executes: no target
\* has been corrected, no corrected pool is in the cache and no output file
\* has been written, wherever in the order the file is first needed.
C13_Original ==
    (\E f \in referenced_files(correction_config) : ~disk[f].exists) =>
        /\ results = <<>>
        /\ DOMAIN saved_files = {}
        /\ \A f \in FileNames : op_counts["processed_files"][f] <= 1
        /\ wpc \notin {"returned", "reported"}

\* C14 as stated: each cache is written exactly once per file name; an entry,
\* once written, is never written again.
C14_Original ==
    \A f \in FileNames :
        /\ op_counts["loaded_files"][f] <= 1
        /\ op_counts["processed_files"][f] <= 1

\* how often each cache has been written for each file
C14_Writes ==
    \A f \in FileNames :
        /\ op_counts["loaded_files"][f] = IF f \in DOMAIN loaded_files THEN 1 ELSE 0
        /\ op_counts["processed_files"][f] =
              IF f \notin DOMAIN processed_files THEN 0
              ELSE IF StepOf(f) # 0 THEN 2
              ELSE 1
        /\ StepOf(f) # 0 =>
              /\ f \in DOMAIN processed_files
              /\ processed_files[f] = saved_files[f].rows

\* a cache entry a step finds is the entry the step leaves
C14_Stable ==
    /\ \A f \in DOMAIN loaded_files :
          f \in DOMAIN loaded_files' /\ loaded_files'[f] = loaded_files[f]
    /\ \A f \in DOMAIN processed_files :
          f \in DOMAIN processed_files' /\ processed_files'[f] = processed_files[f]

\* C14, amended: in a run started with empty caches the cache of loaded
\* tables is written once per file; the cache of processed tables is written
\* once when the file is first fetched and, for a target, a second time when
\* its own step stores the corrected pool; no entry that a step finds is
\* written by that step or a later one.
C14_WriteOnceThenCorrected == [](C14_Writes) /\ [][C14_Stable]_vars

C14_Witness ==
    /\ wpc = "returned"
    /\ Len(results) = 2
    /\ results[1].target_file \in
          {results[2].control_files[j] : j \in DOMAIN results[2].control_files}
    /\ Len(results[1].elimination_log) > 0
    /\ \E f \in DOMAIN processed_files : op_counts["processed_files"][f] = 1

\* C15: in one run every file is loaded from disk at most once and
\* preprocessed at most once, however often it is named or fetched.
C15_LoadedOnce ==
    \A f \in FileNames :
        /\ op_counts["load_sample"][f] <= 1
        /\ op_counts["process_particles"][f] <= 1
        /\ op_counts["load_sample"][f] = 1 <=> f \in DOMAIN loaded_files
        /\ op_counts["process_particles"][f] = 1 <=> f \in DOMAIN processed_files

C15_Witness ==
    /\ wpc = "returned"
    /\ Len(results) = 2
    /\ \E f \in FileNames :
          /\ f \notin TargetSet(correction_config)
          /\ results[1].control_files = <<f, f>>
          /\ results[2].control_files = <<f>>
          /\ op_counts["load_sample"][f] = 1
          /\ op_counts["process_particles"][f] = 1

\* the errors a correction step raises
StepErrors == {"FileNotFoundError", "AttributeError", "ValueError"}

\* the run stopped at step si, with the steps before it as they completed
C16_Aborted ==
    raised \in StepErrors =>
        /\ wpc = "raised"
        /\ si \in DOMAIN processing_order
        /\ Len(results) = si - 1
        /\ DOMAIN saved_files = {results[k].target_file : k \in DOMAIN results}
        /\ \A k \in DOMAIN results :
              LET t == results[k].target_file
              IN /\ t = processing_order[k].target
                 /\ processed_files[t] = saved_files[t].rows
                 /\ Len(saved_files[t].rows) = results[k].final_particles

\* nothing moves once a step has raised
C16_Final ==
    raised \in StepErrors =>
        UNCHANGED <<wpc, si, results, saved_files, processed_files, loaded_files>>

\* C16: an error raised in a correction step leaves run_workflow and ends the
\* run: no later step of the processing order is started, no results are
\* returned, and the outputs and cache entries of the steps completed before
\* stay as they were written.
C16_ErrorAborts == [](C16_Aborted) /\ [][C16_Final]_vars

C16_Witness ==
    /\ raised \in {"AttributeError", "ValueError"}
    /\ Len(processing_order) = 2
    /\ si = 2
    /\ Len(results) = 1
    /\ Len(results[1].elimination_log) > 0

\* C17: after every completed correction step both the corrected pool and the
\* elimination log of the step have been written to the output location.
C17_Original ==
    \A k \in DOMAIN results :
        LET t == results[k].target_file
        IN /\ t \in DOMAIN saved_files
           /\ saved_files[t].kind = "particles"
           /\ Len(saved_files[t].rows) = results[k].final_particles
           /\ \E o \in DOMAIN saved_files :
                 \/ /\ saved_files[o].kind = "elimination_log"
                    /\ saved_files[o].rows = results[k].elimination_log
                 \/ /\ saved_files[o].kind = "report"
                    /\ k \in DOMAIN saved_files[o].rows
                    /\ saved_files[o].rows[k] = results[k].elimination_log

(***************************************************************************)
(* Properties of load_correction_config.                                   *)
(***************************************************************************)
\* the configuration file that was given to load_correction_config
GivenDocument == load_args.config_file.content

\* a 'corrections' mapping whose targets are strings and whose control entries
\* are strings or lists of strings
WellShaped(doc) ==
    /\ doc.type = "document"
    /\ doc.corrections.type = "dict"
    /\ \A i \in DOMAIN doc.corrections.entries :
          LET e == doc.corrections.entries[i]
          IN /\ e.key.type = "str"
             /\ \/ e.value.type = "str"
                \/ /\ e.value.type = "list"
                   /\ \A j \in DOMAIN e.value.items : e.value.items[j].type = "str"

\* C18: load_correction_config accepts a configuration file exactly when it
\* has a 'corrections' mapping in which every target is a string and every
\* control entry a string or a list of strings; every other shape is
\* rejected with a configuration error.
C18_Original ==
    (load_args.config_file.exists /\ lpc \in {"loaded", "raised"}) =>
        /\ lpc = "loaded" <=> WellShaped(GivenDocument)
        /\ lpc = "raised" => load_error = "ValueError"

\* C19: every declaration that passes load_correction_config maps its target
\* to one or more control file names; an empty control list is rejected.
C19_Original ==
    lpc = "loaded" =>
        \A i \in DOMAIN document.corrections.entries :
            LET e == document.corrections.entries[i]
            IN e.value.type = "list" => Len(e.value.items) >= 1

\* C20: with no size matching dimension configured the single-control pass
\* matches on the geometric mean: a pass in which a control record has a
\* phenotype-matching candidate completes without error and logs the
\* difference of the geometric-mean sizes.
C20_Original ==
    (mode = "blank" /\ size_matching_dimension = "unset") =>
        /\ ppc # "raised"
        /\ \A i \in DOMAIN elimination_log :
              LET rec == elimination_log[i]
              IN rec.size_difference =
                    Abs(Loc(environmental_particles, rec.eliminated_particle_id).size_geom_mean
                        - Loc(control_particles, rec.blank_particle_id).size_geom_mean)

(***************************************************************************)
(* The passes on pools that carry a raw size column, under a configured    *)
(* matching dimension.                                                     *)
(***************************************************************************)
\* the configured values: the literal for the geometric mean, or a raw column
NamedDims == {"geometric_mean", "size_1"}

\* target records of one phenotype whose raw size and geometric mean vary
DimTargetRows ==
    { [sample_name |-> s, polymer_type |-> "PE", color |-> "blue", shape |-> "fiber",
       size_1 |-> a, size_geom_mean |-> z] :
        s \in {"S1"}, a \in Sizes, z \in Sizes }

DimControlRows ==
    { [sample_name |-> "B1", polymer_type |-> "PE", color |-> "blue", shape |-> "fiber",
       size_1 |-> a, size_geom_mean |-> z] :
        a \in ControlSizes, z \in ControlSizes }

\* row i gets index label i
Labelled(rows) ==
    [i \in DOMAIN rows |->
        [c \in DOMAIN rows[i] \cup {"id"} |-> IF c = "id" THEN i ELSE rows[i][c]]]

\* the frame without the column
WithoutColumn(df, col) ==
    [i \in DOMAIN df |-> [c \in DOMAIN df[i] \ {col} |-> df[i][c]]]

InitDim ==
    /\ mode \in {"blank", "blind"}
    /\ size_matching_dimension \in NamedDims
    /\ \E r \in SeqsUpTo(DimTargetRows, MaxTarget) : \E has \in BOOLEAN :
          environmental_particles =
              IF has THEN Labelled(r) ELSE WithoutColumn(Labelled(r), "size_1")
    /\ \E r \in SeqsUpTo(DimControlRows, MaxControl) : \E has \in BOOLEAN :
          LET c == IF has THEN Labelled(r) ELSE WithoutColumn(Labelled(r), "size_1")
          IN control_particles = IF mode = "blank" THEN c ELSE rename(c)
    /\ env_particles_copy = environmental_particles
    /\ sample_group = <<>>
    /\ elimination_log = <<>>
    /\ gi = 0
    /\ ci = 1
    /\ ppc = "loop"
    /\ SynIdle
    /\ FlowIdle
    /\ LoadIdle
    /\ CallIdle

NextDim ==
    \/ BlankIter
    \/ BlankReturn
    \/ BlindNextGroup
    \/ BlindIter
    \/ BlindReturn

SpecDim == InitDim /\ [][NextDim]_vars

\* the pool the candidates of the current control record are taken from
DimPool == IF mode = "blank" THEN env_particles_copy ELSE sample_group

\* the configured column is a raw column that both sides carry
DimNamed(row, control) ==
    /\ size_matching_dimension # "geometric_mean"
    /\ size_matching_dimension \in DOMAIN row
    /\ size_matching_dimension \in DOMAIN control

\* the size of the control record on the geometric mean
ControlGeom(control) ==
    IF mode = "blank" THEN control.size_geom_mean ELSE control.blind_size_geom_mean

\* the difference the claim prescribes between a candidate and the control
DimDiff(row, control) ==
    IF DimNamed(row, control)
    THEN Abs(row[size_matching_dimension] - control[size_matching_dimension])
    ELSE Abs(row.size_geom_mean - ControlGeom(control))

\* a step that appends a record eliminates a candidate closest on the
\* prescribed difference and logs that difference
C21_Step ==
    Len(elimination_log') = Len(elimination_log) + 1 =>
        LET rec == elimination_log'[Len(elimination_log')]
            control == control_particles[ci]
            eliminated == Loc(DimPool, rec.eliminated_particle_id)
        IN /\ \A j \in DOMAIN DimPool :
                 SamePhenotype(DimPool[j], control) =>
                     DimDiff(eliminated, control) <= DimDiff(DimPool[j], control)
           /\ rec.size_difference = DimDiff(eliminated, control)

\* C21: in both pass variants the candidate is selected by, and the log
\* records, the absolute difference on the configured raw column when both
\* sides carry it, and on the geometric mean otherwise.
C21_Original == [][C21_Step]_vars

(***************************************************************************)
(* _find_matching_particles followed by _find_closest_particle, called on  *)
(* their own: the match set may be empty.                                  *)
(***************************************************************************)
\* the matcher of the engine in use is called on the pool and a control record
MatchCall ==
    /\ ppc = "match"
    /\ call_matching' =
          IF mode = "blank"
          THEN Blank_find_matching_particles(env_particles_copy, control_particles[ci],
                                             size_matching_dimension).rows
          ELSE Blind_find_matching_particles(env_particles_copy, control_particles[ci])
    /\ ppc' = "closest"
    /\ UNCHANGED <<environmental_particles, control_particles, mode,
                   size_matching_dimension, env_particles_copy, sample_group,
                   elimination_log, gi, ci>>
    /\ UNCHANGED <<closest_particle_id, historyVars, synVars, flowVars, loadVars>>

\* _find_closest_particle is called on the match set, empty or not
ClosestCall ==
    /\ ppc = "closest"
    /\ closest_particle_id' = find_closest_particle(call_matching)
    /\ ppc' = IF closest_particle_id'.raised # "" THEN "raised" ELSE "returned"
    /\ UNCHANGED <<environmental_particles, control_particles, mode,
                   size_matching_dimension, env_particles_copy, sample_group,
                   elimination_log, gi, ci>>
    /\ UNCHANGED <<call_matching, historyVars, synVars, flowVars, loadVars>>

InitClosest ==
    /\ mode \in {"blank", "blind"}
    /\ environmental_particles \in {WithIds(r) : r \in SeqsUpTo(TargetRows, MaxTarget)}
    /\ \E r \in BlankRows :
          control_particles = IF mode = "blank" THEN WithIds(<<r>>) ELSE WithBlindIds(<<r>>)
    /\ size_matching_dimension = "geometric_mean"
    /\ env_particles_copy = environmental_particles
    /\ sample_group = <<>>
    /\ elimination_log = <<>>
    /\ gi = 0
    /\ ci = 1
    /\ ppc = "match"
    /\ call_matching = <<>>
    /\ closest_particle_id = [raised |-> "", id |-> 0]
    /\ previous_results = <<>>
    /\ SynIdle
    /\ FlowIdle
    /\ LoadIdle

NextClosest ==
    \/ MatchCall
    \/ ClosestCall

SpecClosest == InitClosest /\ [][NextClosest]_vars

\* C22: _find_closest_particle on an empty match set raises ValueError and
\* returns no particle id, in either engine, and the call removes no particle
\* and appends no log record.
C22_EmptyRaises ==
    [][(ppc = "closest" /\ Len(call_matching) = 0) =>
          /\ ppc' = "raised"
          /\ closest_particle_id'.raised = "ValueError"
          /\ closest_particle_id'.id \notin Index(env_particles_copy)
          /\ env_particles_copy' = env_particles_copy
          /\ elimination_log' = elimination_log]_vars

\* the call was made on an empty match set over a non-empty pool, and raised
C22_Witness ==
    /\ ppc = "raised"
    /\ Len(call_matching) = 0
    /\ Len(env_particles_copy) > 0
    /\ closest_particle_id.raised = "ValueError"

(***************************************************************************)
(* Properties of the steps of a run.                                       *)
(***************************************************************************)
\* the processed pool a step is handed for the file: the cached frame, or the
\* file as it is on disk, loaded and preprocessed
PoolOf(file) ==
    IF file \in DOMAIN processed_files
    THEN processed_files[file]
    ELSE process_particles(load_sample(disk[file].rows, file))

RECURSIVE CombinedControls(_, _)
\* the relabelled pools of the control files from position k on, concatenated
CombinedControls(control_files, k) ==
    IF k > Len(control_files)
    THEN <<>>
    ELSE rename(PoolOf(control_files[k])) \o CombinedControls(control_files, k + 1)

\* a step that completes took the pass variant its number of controls fixes
C23_Step ==
    Len(results') = Len(results) + 1 =>
        LET step == processing_order[si]
            done == results'[Len(results')]
            target_pool == PoolOf(step.target)
        IN IF Len(step.controls) = 1
           THEN LET r == apply_blank_correction(target_pool, PoolOf(step.controls[1]),
                                                size_matching_dimension)
                IN /\ done.elimination_log = r.log
                   /\ processed_files'[step.target] = r.corrected
           ELSE /\ Len(step.controls) >= 2
                /\ \E synthetic_control \in
                       create_synthetic_blind(
                           concat_ignore_index(CombinedControls(step.controls, 1))) :
                      LET r == apply_blind_correction(target_pool, synthetic_control)
                      IN /\ done.elimination_log = r.log
                         /\ processed_files'[step.target] = r.corrected
                /\ \A j \in DOMAIN done.elimination_log :
                      "blind_particle_id" \in DOMAIN done.elimination_log[j]

\* C23: a step naming exactly one control, as a string or as a one-element
\* list, runs the single-control pass against that control's processed pool;
\* a step naming two or more controls runs one grouped pass against the
\* synthetic control built from their concatenated pools.
C23_PassVariant == [][C23_Step]_vars

\* a step with several controls and a step with one control have both
\* completed with eliminations, one control being declared as a bare string
C23_Witness ==
    /\ \E i \in DOMAIN results :
          Len(results[i].control_files) >= 2 /\ Len(results[i].elimination_log) > 0
    /\ \E i \in DOMAIN results :
          /\ Len(results[i].control_files) = 1 /\ Len(results[i].elimination_log) > 0
          /\ \E k \in DOMAIN correction_config :
                /\ correction_config[k].target = results[i].target_file
                /\ correction_config[k].controls.is_str

(***************************************************************************)
(* The order of the synthetic control.                                     *)
(***************************************************************************)
RECURSIVE PhenotypeRuns(_, _)
\* the phenotypes of the frame in row order, one per run of equal phenotypes
PhenotypeRuns(df, k) ==
    IF k > Len(df)
    THEN <<>>
    ELSE IF k > 1 /\ SamePhenotype(df[k], df[k - 1])
    THEN PhenotypeRuns(df, k + 1)
    ELSE <<PhenotypeOf(df[k])>> \o PhenotypeRuns(df, k + 1)

\* a target pool of one sample with one particle of every phenotype
ProbeTarget ==
    [i \in DOMAIN PhenotypeOrder |->
        [id |-> i, sample_name |-> "S1", polymer_type |-> PhenotypeOrder[i].polymer_type,
         color |-> PhenotypeOrder[i].color, shape |-> PhenotypeOrder[i].shape,
         size_geom_mean |-> 100]]

\* the phenotypes in the order the grouped pass eliminates them from the probe:
\* the order in which it meets the phenotypes of the control records
ProcessedOrder(control) ==
    LET log == apply_blind_correction(ProbeTarget, control).log
    IN [j \in DOMAIN log |-> PhenotypeOf(log[j])]

\* C24 as stated: the selections are listed, and then processed by the grouped
\* pass, in the order in which the phenotype groups are first encountered in
\* the input pool.
C24_Original ==
    spc = "done" =>
        /\ PhenotypeRuns(synthetic_blind, 1) = FirstEncountered(blind_particles, 1)
        /\ ProcessedOrder(synthetic_blind) = FirstEncountered(blind_particles, 1)

\* the position of a phenotype in the ascending order of the keys
KeyRank(p) == CHOOSE i \in DOMAIN PhenotypeOrder : PhenotypeOrder[i] = p

\* the sequence lists every phenotype of the pool once, in ascending key order
AscendingKeysOf(keys, pool) ==
    /\ \A i, j \in DOMAIN keys : i < j => KeyRank(keys[i]) < KeyRank(keys[j])
    /\ {keys[i] : i \in DOMAIN keys} = {PhenotypeOf(pool[i]) : i \in DOMAIN pool}

\* C24 amended: the selections are listed, and then processed by the grouped
\* pass, in ascending order of the phenotype key, whatever the order of the
\* input records.
C24_AscendingOrder ==
    spc = "done" =>
        /\ AscendingKeysOf(PhenotypeRuns(synthetic_blind, 1), blind_particles)
        /\ AscendingKeysOf(ProcessedOrder(synthetic_blind), blind_particles)

\* a synthetic control was built from a pool whose first record belongs to the
\* phenotype group with the greater key
C24_Witness ==
    /\ spc = "done"
    /\ \E i \in DOMAIN blind_particles : PhenotypeOf(blind_particles[i]) = PhenotypeOrder[1]
    /\ PhenotypeOf(blind_particles[1]) = PhenotypeOrder[2]
    /\ Len(synthetic_blind) >= 2

(***************************************************************************)
(* The passes on every bounded input, and the steps of a run on every      *)
(* bounded configuration over files that exist.                            *)
(***************************************************************************)
InitFrame ==
    \/ /\ mode \in {"blank", "blind"}
       /\ environmental_particles \in {WithIds(r) : r \in SeqsUpTo(TargetRows, MaxTarget)}
       /\ control_particles \in
            IF mode = "blank"
            THEN {WithIds(r) : r \in SeqsUpTo(BlankRows, MaxControl)}
            ELSE {WithBlindIds(r) : r \in SeqsUpTo(BlankRows, MaxControl)}
       /\ size_matching_dimension = IF mode = "blank" THEN "geometric_mean" ELSE "unset"
       /\ env_particles_copy = environmental_particles
       /\ ppc = "loop"
       /\ correction_config = <<>>
       /\ wpc = "off"
       /\ disk = ScenarioDisk
    \/ /\ mode = "blank"
       /\ environmental_particles = <<>>
       /\ control_particles = <<>>
       /\ size_matching_dimension \in SizeDims
       /\ env_particles_copy = <<>>
       /\ ppc = "off"
       /\ \E o \in RunTargetOrders : \E e \in [DOMAIN o -> ControlEntries] :
             correction_config = [i \in DOMAIN o |-> [target |-> o[i], controls |-> e[i]]]
       /\ wpc = "detect"
       /\ disk \in [FileNames -> {d \in DiskFiles : d.exists}]
    /\ sample_group = <<>>
    /\ elimination_log = <<>>
    /\ gi = 0
    /\ ci = 1
    /\ entry = "run_workflow"
    /\ raised = ""
    /\ circular_errors = <<>>
    /\ graph = [f \in FileNames |-> <<>>]
    /\ in_degree = [f \in FileNames |-> 0]
    /\ queue = <<>>
    /\ processing_order = <<>>
    /\ si = 1
    /\ loaded_files = <<>>
    /\ processed_files = <<>>
    /\ saved_files = <<>>
    /\ results = <<>>
    /\ op_counts = NoCounts
    /\ SynIdle
    /\ LoadIdle
    /\ CallIdle

NextFrame ==
    \/ BlankIter
    \/ BlankReturn
    \/ BlindNextGroup
    \/ BlindIter
    \/ BlindReturn
    \/ FlowDetect
    \/ ResolveBuild
    \/ KahnStep
    \/ KahnReturn
    \/ FlowStep
    \/ FlowReturn

SpecFrame == InitFrame /\ [][NextFrame]_vars

\* a pass leaves the pools passed to it as they are and only removes records
\* from its working copy
C25_PassInputs ==
    /\ environmental_particles' = environmental_particles
    /\ control_particles' = control_particles
    /\ Index(env_particles_copy') \subseteq Index(env_particles_copy)
    /\ \A l \in Index(env_particles_copy') :
          Loc(env_particles_copy', l) = Loc(environmental_particles, l)

\* a step of a run leaves the cache entry of every file but its target as it
\* was; an entry the step adds holds the file's pool as preprocessed
C25_OtherEntries ==
    (wpc = "steps" /\ si <= Len(processing_order)) =>
        /\ \A f \in DOMAIN processed_files \ {processing_order[si].target} :
              f \in DOMAIN processed_files' /\ processed_files'[f] = processed_files[f]
        /\ \A f \in DOMAIN processed_files' \ (DOMAIN processed_files
                                                 \cup {processing_order[si].target}) :
              processed_files'[f] = process_particles(load_sample(disk[f].rows, f))
        /\ \A f \in DOMAIN loaded_files :
              f \in DOMAIN loaded_files' /\ loaded_files'[f] = loaded_files[f]

\* C25: the matcher and both passes leave the target pool and the control pool
\* passed to them unchanged and remove particles from the working copy only,
\* and a step leaves the cache entry of every file other than its target,
\* its control files included, as it was before the step.
C25_OnlyTargetChanges == [][C25_PassInputs /\ C25_OtherEntries]_vars

\* a step has eliminated particles from its target while the pool of its
\* control was cached
C25_Witness ==
    /\ Len(results) >= 1
    /\ LET done == results[Len(results)]
       IN /\ Len(done.elimination_log) > 0
          /\ \A j \in DOMAIN done.control_files :
                done.control_files[j] \in DOMAIN processed_files
          /\ Len(processed_files[done.target_file]) < done.original_particles

(***************************************************************************)
(* run_workflow called a second time on the same workflow object.          *)
(***************************************************************************)
\* run_workflow has returned and is called again: its locals start afresh,
\* self.loaded_files and self.processed_files (lines 49-50) and the files
\* written are those the first run left
FlowRerun ==
    /\ entry = "run_workflow"
    /\ wpc = "returned"
    /\ previous_results = <<>>
    /\ previous_results' = <<[results |-> results, pools |-> processed_files]>>
    /\ results' = <<>>
    /\ wpc' = "detect"
    /\ si' = 1
    /\ circular_errors' = <<>>
    /\ graph' = [f \in FileNames |-> <<>>]
    /\ in_degree' = [f \in FileNames |-> 0]
    /\ queue' = <<>>
    /\ processing_order' = <<>>
    /\ UNCHANGED <<correction_config, entry, raised, disk, loaded_files,
                   processed_files, saved_files, op_counts>>
    /\ UNCHANGED <<passVars, synVars, loadVars, callVars>>

InitRerun ==
    /\ \E o \in RunTargetOrders : \E e \in [DOMAIN o -> ControlEntries] :
          correction_config = [i \in DOMAIN o |-> [target |-> o[i], controls |-> e[i]]]
    /\ entry = "run_workflow"
    /\ wpc = "detect"
    /\ raised = ""
    /\ circular_errors = <<>>
    /\ graph = [f \in FileNames |-> <<>>]
    /\ in_degree = [f \in FileNames |-> 0]
    /\ queue = <<>>
    /\ processing_order = <<>>
    /\ si = 1
    /\ loaded_files = <<>>
    /\ processed_files = <<>>
    /\ saved_files = <<>>
    /\ disk \in [FileNames -> {d \in DiskFiles : d.exists}]
    /\ results = <<>>
    /\ op_counts = NoCounts
    /\ mode = "blank"
    /\ environmental_particles = <<>>
    /\ control_particles = <<>>
    /\ size_matching_dimension \in SizeDims
    /\ env_particles_copy = <<>>
    /\ sample_group = <<>>
    /\ elimination_log = <<>>
    /\ gi = 0
    /\ ci = 1
    /\ ppc = "loop"
    /\ SynIdle
    /\ LoadIdle
    /\ CallIdle

NextRerun ==
    \/ FlowDetect
    \/ ResolveBuild
    \/ KahnStep
    \/ KahnReturn
    \/ FlowStep
    \/ FlowReturn
    \/ FlowRerun

SpecRerun == InitRerun /\ [][NextRerun]_vars

\* C26: run_workflow executed twice on the same workflow object, with the
\* configuration and the files unchanged, yields the same corrected pool and
\* the same elimination log for every target both times.
C26_Original ==
    (wpc = "returned" /\ previous_results # <<>>) =>
        \A i \in DOMAIN results : \A j \in DOMAIN previous_results[1].results :
            LET first == previous_results[1].results[j]
            IN results[i].target_file = first.target_file =>
                  /\ results[i].elimination_log = first.elimination_log
                  /\ processed_files[first.target_file]
                        = previous_results[1].pools[first.target_file]

(***************************************************************************)
(* MPDB_procedures.py: the historical procedures.  The control pool is the *)
(* one the new pass is given; its size_geom_mean is what the historical    *)
(* frames carry as blank_size_geom_mean.                                   *)
(***************************************************************************)
\* lines 22-24: the inner merge on Sample, polymer_type, Colour and Shape keeps
\* the rows of the pool that agree with the blank particle on all four
blank_merge(samples_MP_copy, row_content) ==
    LET On(r) == r.sample_name = row_content.sample_name /\ SamePhenotype(r, row_content)
        merged == SelectSeq(samples_MP_copy, On)
    IN [i \in DOMAIN merged |->
           [id |-> merged[i].id,
            size_diff |-> Abs(merged[i].size_geom_mean - row_content.size_geom_mean)]]

RECURSIVE blank_procedure_loop(_, _, _, _)
\* lines 19-60 from blank particle i on
blank_procedure_loop(samples_MP_copy, IPF_blank_MP, i, IPF_elimination_list) ==
    IF i > Len(IPF_blank_MP)
    THEN [corrected |-> samples_MP_copy, log |-> IPF_elimination_list]
    ELSE LET current_blank_particle == blank_merge(samples_MP_copy, IPF_blank_MP[i])
         IN IF Len(current_blank_particle) > 0
            THEN LET eliminee == idxmin(current_blank_particle)
                 IN blank_procedure_loop(
                        Drop(samples_MP_copy, eliminee), IPF_blank_MP, i + 1,
                        Append(IPF_elimination_list,
                               [ID_blank_particle |-> IPF_blank_MP[i].id,
                                ID_sample_particle |-> eliminee]))
            ELSE blank_procedure_loop(samples_MP_copy, IPF_blank_MP, i + 1,
                                      IPF_elimination_list)

\* blank_procedure: (samples_MP_copy, IPF_elimination_list)
blank_procedure(samples_MP, IPF_blank_MP) ==
    blank_procedure_loop(samples_MP, IPF_blank_MP, 1, <<>>)

\* the (control id, eliminated id) pairs of a log of the single-control pass
BlankPairs(log) ==
    [j \in DOMAIN log |->
        [ID_blank_particle |-> log[j].blank_particle_id,
         ID_sample_particle |-> log[j].eliminated_particle_id]]

\* C27: on pools with pairwise distinct ids the single-control pass eliminates
\* the same particles, paired with the same control records in the same
\* order, as blank_procedure, and leaves the same post-pool.
C27_Original ==
    (mode = "blank" /\ ppc = "done") =>
        LET historical == blank_procedure(environmental_particles, control_particles)
        IN /\ BlankPairs(elimination_log) = historical.log
           /\ env_particles_copy = historical.corrected

\* lines 78-80: the inner merge on polymer_type, Colour and Shape keeps the rows
\* of the sample group that agree with the blind particle on all three
blind_merge(group, row_content) ==
    LET On(r) == SamePhenotype(r, row_content)
        merged == SelectSeq(group, On)
    IN [i \in DOMAIN merged |->
           [id |-> merged[i].id,
            size_diff |-> Abs(merged[i].size_geom_mean
                              - row_content.blind_size_geom_mean)]]

RECURSIVE blind_procedure_inner(_, _, _, _, _)
\* lines 77-98 from blind particle i on, in one sample group
blind_procedure_inner(env_MP_copy, group, syn_blind, i, IOW_elimination_list) ==
    IF i > Len(syn_blind)
    THEN [corrected |-> env_MP_copy, log |-> IOW_elimination_list]
    ELSE LET current_blind_particle == blind_merge(group, syn_blind[i])
         IN IF Len(current_blind_particle) > 0
            THEN LET eliminee == idxmin(current_blind_particle)
                 IN blind_procedure_inner(
                        Drop(env_MP_copy, eliminee), Drop(group, eliminee), syn_blind,
                        i + 1,
                        Append(IOW_elimination_list,
                               [ID_blind_particle |-> syn_blind[i].id,
                                ID_sample_particle |-> eliminee,
                                Sample |-> Loc(env_MP_copy, eliminee).sample_name]))
            ELSE blind_procedure_inner(env_MP_copy, group, syn_blind, i + 1,
                                       IOW_elimination_list)

RECURSIVE blind_procedure_outer(_, _, _, _, _)
\* lines 76-101 from sample group g of env_MP.groupby('Sample') on
blind_procedure_outer(env_MP, env_MP_copy, syn_blind, g, IOW_elimination_list) ==
    IF g > Len(GroupKeys(env_MP))
    THEN [corrected |-> env_MP_copy, log |-> IOW_elimination_list]
    ELSE LET r == blind_procedure_inner(env_MP_copy,
                                        GroupOf(env_MP, GroupKeys(env_MP)[g]),
                                        syn_blind, 1, IOW_elimination_list)
         IN blind_procedure_outer(env_MP, r.corrected, syn_blind, g + 1, r.log)

\* blind_procedure: (env_MP_copy, IOW_elimination_list)
blind_procedure(env_MP, syn_blind) ==
    blind_procedure_outer(env_MP, env_MP, syn_blind, 1, <<>>)

\* the (control id, eliminated id, sample name) records of a log of the
\* grouped pass
BlindTriples(log) ==
    [j \in DOMAIN log |->
        [ID_blind_particle |-> log[j].blind_particle_id,
         ID_sample_particle |-> log[j].eliminated_particle_id,
         Sample |-> log[j].sample_name]]

\* C28: on target pools with pairwise distinct ids the grouped pass produces
\* the same ordered sequence of (control id, eliminated id, sample name)
\* records and the same post-pool as blind_procedure.
C28_SameAsHistorical ==
    (mode = "blind" /\ ppc = "done") =>
        LET historical == blind_procedure(environmental_particles, control_particles)
        IN /\ BlindTriples(elimination_log) = historical.log
           /\ env_particles_copy = historical.corrected

\* a grouped pass over two sample groups has finished with eliminations in
\* both, one of them chosen among several candidates
C28_Witness ==
    /\ mode = "blind" /\ ppc = "done"
    /\ Len(GroupKeys(environmental_particles)) = 2
    /\ {elimination_log[j].sample_name : j \in DOMAIN elimination_log} = SampleNames
    /\ Len(env_particles_copy) > 0
    /\ \E j \in DOMAIN elimination_log :
          SamePhenotype(elimination_log[j], env_particles_copy[1])

(***************************************************************************)
(* The state of the workflow object after a rejected load.                 *)
(***************************************************************************)
\* C29: when load_correction_config raises because the declaration is
\* malformed, the correction configuration and the data directory of the
\* workflow object are the ones it had before the call.
C29_Original ==
    (lpc = "raised" /\ load_error \in {"ValueError", "TypeError"}) =>
        /\ document = Document(Absent, Absent, Absent)
        /\ data_directory = <<"data">>

(***************************************************************************)
(* Completion of a run.                                                    *)
(***************************************************************************)
\* the configuration declares a target, is acyclic, every target has a control
\* and every file a declaration names exists
C30_Pre ==
    /\ correction_config # <<>>
    /\ ~Cyclic(correction_config)
    /\ \A t \in TargetSet(correction_config) : Len(ControlsOf(correction_config, t)) >= 1
    /\ \A f \in referenced_files(correction_config) : disk[f].exists

\* run_workflow has returned its results
C30_Returned == wpc \in {"returned", "reported"}

\* one entry per declared target, with as many particles eliminated as the
\* step's log has records
C30_Totals ==
    /\ Len(results) = Cardinality(TargetSet(correction_config))
    /\ {results[i].target_file : i \in DOMAIN results} = TargetSet(correction_config)
    /\ \A i \in DOMAIN results :
          results[i].particles_eliminated = Len(results[i].elimination_log)

\* C30: on an acyclic configuration in which each target has a control and all
\* referenced files exist, run_workflow runs to completion, and on completion
\* the result holds one entry per declared target and the particles counted
\* as eliminated are those of the steps' elimination logs.
C30_Original ==
    C30_Pre =>
        /\ wpc # "raised"
        /\ C30_Returned => C30_Totals

====
